---------------------------- MODULE Spec2Model ----------------------------
(***************************************************************************)
(* A model of tbc-raw-stack: the N-way median-fusion kernel generated by   *)
(* build.rs, the dropout consensus sweep and the field loop of main.rs.    *)
(*                                                                         *)
(* Arrays of the program are 0-based; the sequences that model them are    *)
(* 1-based, so element i of the program is element i + 1 of the model.     *)
(***************************************************************************)
EXTENDS Integers, Sequences, FiniteSets, TLC

VARIABLES
    pc,             \* position of the modelled routine
    cpu,            \* the x86 features is_x86_feature_detected! reports
    va,             \* median{i}: the N vector arguments, one per input
    m,              \* median{i}: the returned vector
    in_luma,        \* main: the luma field read from every input
    in_chroma,      \* main: the chroma field read from every input
    new_luma,       \* main: the fused luma field
    new_chroma,     \* main: the fused chroma field
    sse_luma,       \* main: squared error of the useful range, per input
    sse_luma_edge,  \* main: squared error outside the useful range, per input
    sse_chroma,     \* main: squared error of the chroma plane, per input
    args_dropout_threshold, \* args.dropout_threshold: {} for None, {k} for Some(k)
    dropout_threshold,      \* main: the quorum of the dropout sweep
    dropouts,       \* per input, the drop_outs of its current field
    flat_dropouts,  \* main: the sweep events, after sort_unstable_by
    drop_outs,      \* new_field.drop_outs
    depth_underflow,\* the sweep executed depth -= 1 with depth = 0
    first_merge,    \* the drop_outs of the first merge, once fed back
    args,           \* args: start_field, max_fields, dupes_to_drops
    fields,         \* per input, metadata.fields: the seq_no of every field
    inputs,         \* per input: field_index, dupe_count, last_seq_no
    out_fields,     \* main: the fields pushed for the output metadata
    out_samples,    \* out_luma / out_chroma: the fields written, in order
    new_field,      \* main: the metadata of the field to emit
    new_samples,    \* new_luma / new_chroma: the input fields they were fused from
    dupes_written,  \* main: duplicates marked so far
    drop_next,      \* main: the next fused field is not to be emitted
    log,            \* what every loop iteration did, oldest first
    opened,         \* main: the inputs whose files were opened
    created,        \* main: the output files created
    out_meta,       \* main: the output metadata, once written
    out_fieldmap,   \* main: the field map file, when asked for, and its lines
    rmse_psnr,      \* main: the RMSE pSNR of every input, from sse_luma
    rmse_bad_in_a_row, \* main: per input, the suspect fields in a row
    history,        \* what every scored or dropped iteration did, oldest first
    out_luma,       \* the luma samples written to the output, field by field
    out_chroma      \* the chroma samples written to the output, field by field

kernel_vars == << cpu, va, m, in_luma, in_chroma, new_luma, new_chroma,
                  sse_luma, sse_luma_edge, sse_chroma >>

merge_vars == << args_dropout_threshold, dropout_threshold, dropouts,
                 flat_dropouts, drop_outs, depth_underflow, first_merge >>

sync_vars == << args, fields, inputs, out_fields, out_samples, new_field,
                new_samples, dupes_written, drop_next, log, opened, created,
                out_meta, out_fieldmap >>

metric_vars == << rmse_psnr, rmse_bad_in_a_row, history >>

file_vars == << out_luma, out_chroma >>

vars == << pc, kernel_vars, merge_vars, sync_vars, metric_vars, file_vars >>

-----------------------------------------------------------------------------
(* Bounds of the model.                                                    *)

\* Largest N whose sample tuples are enumerated over WideSamples; for every
\* N the tuples over ExtremeSamples are enumerated.
MaxWideN == 6

\* The field of SpecKernel, in blocks of 32 samples: the samples before the
\* useful range, the useful range, and the samples after it.
PreBlocks == 1
UsefulBlocks == 1
PostBlocks == 1

\* Samples by which that field falls short of a multiple of 32.
TailPad == 9

\* The field of SpecMerge: samples per line and lines per field.
MergeWidth == 2
MergeHeight == 2

\* Most dropout spans one input lists for a field, and most over all inputs.
MaxSpansPerInput == 2
MaxSpans == 3

\* Largest --dropout-threshold given on the command line.
MaxOverride == 4

\* Most fields of inputs 1 and 3 of SpecSync; input 2 may hold one more.
MaxFields == 3

\* The --max-fields given on the command line, when it is not 0.
FieldCap == 2

\* Most fields of inputs 1 and 3 of SpecSyncFair; input 2 may hold one more.
MaxFairFields == 2

\* Most inputs named on the command line in SpecStartup.
MaxInputs == 16

\* Most fields of an input in SpecRun.
MaxRunFields == 2

\* Most loop iterations of SpecMetrics, and the longest stretch of them that
\* differs from the first iteration.
MaxIterations == 61
MaxBreak == 2

-----------------------------------------------------------------------------
(* Program constants.                                                      *)

U16_MAX == 65535
MIN_KERNEL_INPUTS == 3
MAX_KERNEL_INPUTS == 15
MIN_INPUT_STREAMS == 3
MAX_INPUT_STREAMS == 15
RMSE_WARN_THRESHOLD == 30

Min(a, b) == IF a <= b THEN a ELSE b
Max(a, b) == IF a <= b THEN b ELSE a

\* The sequence with the elements of f, a function over 1..n, each element
\* computed once (TLC would otherwise recompute f[i] at every use).
Vec(f) == SubSeq(f, 1, Len(f))

\* The table of compare-exchange pairs, indexed by the number of inputs:
\* sort_net[i + 1] is the network of i inputs.
sort_net ==
    <<
       << >>,
       << >>,
       << >>,
       << <<0,2>>, <<0,1>>, <<1,2>> >>,
       << <<0,2>>, <<1,3>>, <<0,1>>, <<2,3>>, <<1,2>> >>,
       << <<0,3>>, <<1,4>>, <<0,2>>, <<1,3>>, <<0,1>>, <<2,4>>, <<1,2>>, <<3,4>>, <<2,3>> >>,
       << <<0,5>>, <<1,3>>, <<2,4>>, <<1,2>>, <<3,4>>, <<0,3>>, <<2,5>>, <<0,1>>,
          <<2,3>>, <<4,5>>, <<1,2>>, <<3,4>> >>,
       << <<0,6>>, <<2,3>>, <<4,5>>, <<0,2>>, <<1,4>>, <<3,6>>, <<0,1>>, <<2,5>>,
          <<3,4>>, <<1,2>>, <<4,6>>, <<2,3>>, <<4,5>>, <<1,2>>, <<3,4>>, <<5,6>> >>,
       << <<0,2>>, <<1,3>>, <<4,6>>, <<5,7>>, <<0,4>>, <<1,5>>, <<2,6>>, <<3,7>>,
          <<0,1>>, <<2,3>>, <<4,5>>, <<6,7>>, <<2,4>>, <<3,5>>, <<1,4>>, <<3,6>>,
          <<1,2>>, <<3,4>>, <<5,6>> >>,
       << <<0,3>>, <<1,7>>, <<2,5>>, <<4,8>>, <<0,7>>, <<2,4>>, <<3,8>>, <<5,6>>,
          <<0,2>>, <<1,3>>, <<4,5>>, <<7,8>>, <<1,4>>, <<3,6>>, <<5,7>>, <<0,1>>,
          <<2,4>>, <<3,5>>, <<6,8>>, <<2,3>>, <<4,5>>, <<6,7>>, <<1,2>>, <<3,4>>, <<5,6>> >>,
       << <<0,1>>, <<2,5>>, <<3,6>>, <<4,7>>, <<8,9>>, <<0,6>>, <<1,8>>, <<2,4>>,
          <<3,9>>, <<5,7>>, <<0,2>>, <<1,3>>, <<4,5>>, <<6,8>>, <<7,9>>, <<0,1>>,
          <<2,7>>, <<3,5>>, <<4,6>>, <<8,9>>, <<1,2>>, <<3,4>>, <<5,6>>, <<7,8>>,
          <<1,3>>, <<2,4>>, <<5,7>>, <<6,8>>, <<2,3>>, <<4,5>>, <<6,7>> >>,
       << <<0,9>>, <<1,6>>, <<2,4>>, <<3,7>>, <<5,8>>, <<0,1>>, <<3,5>>, <<4,10>>,
          <<6,9>>, <<7,8>>, <<1,3>>, <<2,5>>, <<4,7>>, <<8,10>>, <<0,4>>, <<1,2>>,
          <<3,7>>, <<5,9>>, <<6,8>>, <<0,1>>, <<2,6>>, <<4,5>>, <<7,8>>, <<9,10>>,
          <<2,4>>, <<3,6>>, <<5,7>>, <<8,9>>, <<1,2>>, <<3,4>>, <<5,6>>, <<7,8>>,
          <<2,3>>, <<4,5>>, <<6,7>> >>,
       << <<0,8>>, <<1,7>>, <<2,6>>, <<3,11>>, <<4,10>>, <<5,9>>, <<0,2>>, <<1,4>>,
          <<3,5>>, <<6,8>>, <<7,10>>, <<9,11>>, <<0,1>>, <<2,9>>, <<4,7>>, <<5,6>>,
          <<10,11>>, <<1,3>>, <<2,7>>, <<4,9>>, <<8,10>>, <<0,1>>, <<2,3>>, <<4,5>>,
          <<6,7>>, <<8,9>>, <<10,11>>, <<1,2>>, <<3,5>>, <<6,8>>, <<9,10>>, <<2,4>>,
          <<3,6>>, <<5,8>>, <<7,9>>, <<1,2>>, <<3,4>>, <<5,6>>, <<7,8>>, <<9,10>> >>,
       << <<0,11>>, <<1,7>>, <<2,4>>, <<3,5>>, <<8,9>>, <<10,12>>, <<0,2>>, <<3,6>>,
          <<4,12>>, <<5,7>>, <<8,10>>, <<0,8>>, <<1,3>>, <<2,5>>, <<4,9>>, <<6,11>>,
          <<7,12>>, <<0,1>>, <<2,10>>, <<3,8>>, <<4,6>>, <<9,11>>, <<1,3>>, <<2,4>>,
          <<5,10>>, <<6,8>>, <<7,9>>, <<11,12>>, <<1,2>>, <<3,4>>, <<5,8>>, <<6,9>>,
          <<7,10>>, <<2,3>>, <<4,7>>, <<5,6>>, <<8,11>>, <<9,10>>, <<4,5>>, <<6,7>>,
          <<8,9>>, <<10,11>>, <<3,4>>, <<5,6>>, <<7,8>>, <<9,10>> >>,
       << <<0,1>>, <<2,3>>, <<4,5>>, <<6,7>>, <<8,9>>, <<10,11>>, <<12,13>>, <<0,2>>,
          <<1,3>>, <<4,8>>, <<5,9>>, <<10,12>>, <<11,13>>, <<0,10>>, <<1,6>>, <<2,11>>,
          <<3,13>>, <<5,8>>, <<7,12>>, <<1,4>>, <<2,8>>, <<3,6>>, <<5,11>>, <<7,10>>,
          <<9,12>>, <<0,1>>, <<3,9>>, <<4,10>>, <<5,7>>, <<6,8>>, <<12,13>>, <<1,5>>,
          <<2,4>>, <<3,7>>, <<6,10>>, <<8,12>>, <<9,11>>, <<1,2>>, <<3,5>>, <<4,6>>,
          <<7,9>>, <<8,10>>, <<11,12>>, <<2,3>>, <<4,5>>, <<6,7>>, <<8,9>>, <<10,11>>,
          <<3,4>>, <<5,6>>, <<7,8>>, <<9,10>> >>,
       << <<0,6>>, <<1,10>>, <<2,14>>, <<3,9>>, <<4,12>>, <<5,13>>, <<7,11>>, <<0,7>>,
          <<2,5>>, <<3,4>>, <<6,11>>, <<8,10>>, <<9,12>>, <<13,14>>, <<1,13>>, <<2,3>>,
          <<4,6>>, <<5,9>>, <<7,8>>, <<10,14>>, <<11,12>>, <<0,3>>, <<1,4>>, <<5,7>>,
          <<6,13>>, <<8,9>>, <<10,11>>, <<12,14>>, <<0,2>>, <<1,5>>, <<3,8>>, <<4,6>>,
          <<7,10>>, <<9,11>>, <<12,13>>, <<0,1>>, <<2,5>>, <<3,10>>, <<4,8>>, <<6,7>>,
          <<9,12>>, <<11,13>>, <<1,2>>, <<3,4>>, <<5,6>>, <<7,9>>, <<8,10>>, <<11,12>>,
          <<3,5>>, <<4,6>>, <<7,8>>, <<9,10>>, <<2,3>>, <<4,5>>, <<6,7>>, <<8,9>>,
          <<10,11>> >>
    >>

-----------------------------------------------------------------------------
(* The generated kernel (build.rs, write_simd).  A vector register is a    *)
(* sequence of 16-bit lanes; the intrinsics act on every lane alike.       *)

mm_min_epu16(a, b) == Vec([l \in 1..Len(a) |-> Min(a[l], b[l])])
mm_max_epu16(a, b) == Vec([l \in 1..Len(a) |-> Max(a[l], b[l])])

\* _mm*_avg_epu16: (a + b + 1) >> 1 on every lane, the sum taken in 17 bits.
mm_avg_epu16(a, b) == Vec([l \in 1..Len(a) |-> (a[l] + b[l] + 1) \div 2])

\* sort2(a0, a1) on the argument list v: a{x} becomes the lane-wise minimum,
\* a{y} the lane-wise maximum.
sort2(v, x, y) ==
    [v EXCEPT ![x + 1] = mm_min_epu16(v[x + 1], v[y + 1]),
              ![y + 1] = mm_max_epu16(v[x + 1], v[y + 1])]

\* The calls lo..hi of the table net, in table order: the first half of
\* them, then the second half on what the first half left.  Fewer than two
\* arguments have nothing to exchange; asking for their number also makes
\* the evaluation compute v before the calls that read it.
RECURSIVE sort_steps(_, _, _, _)
sort_steps(net, lo, hi, v) ==
    IF lo > hi \/ Len(v) < 2 THEN v
    ELSE IF lo = hi THEN sort2(v, net[lo][1], net[lo][2])
    ELSE LET mid == (lo + hi) \div 2
         IN  sort_steps(net, mid + 1, hi, sort_steps(net, lo, mid, v))

\* sort{i}: the calls sort2(a{a}, a{b}) of sort_net[i], in table order.
sort_n(i, v) == sort_steps(sort_net[i + 1], 1, Len(sort_net[i + 1]), v)

\* A median that returns a{i/2} for even i too.
median_n_no_avg(i, v) == sort_n(i, v)[i \div 2 + 1]

\* median{i}: sort a copy of the arguments, return a{i/2} for odd i and
\* avg_epu16(a{i/2-1}, a{i/2}) for even i.
median_n(i, v) ==
    LET a == sort_n(i, v)
    IN  IF i % 2 = 1 THEN a[i \div 2 + 1]
        ELSE mm_avg_epu16(a[i \div 2 - 1 + 1], a[i \div 2 + 1])

\* An unsigned 64-bit sum is kept as << high, low >> with low < 2^16, so
\* that no intermediate value leaves TLC's 32-bit integers; the sums
\* of the model stay far below 2^64, where the program's u64 would wrap.
LIMB == 65536

U64(n) == << n \div LIMB, n % LIMB >>

u64_add(x, y) ==
    LET lo == x[2] + y[2]
    IN  << x[1] + y[1] + lo \div LIMB, lo % LIMB >>

\* diff as i64 * diff as i64, for diff = a as i32 - b as i32.
sq(a, b) ==
    LET d  == IF a >= b THEN a - b ELSE b - a
        dh == d \div 256
        dl == d % 256
        lo == 2 * dh * dl * 256 + dl * dl
    IN  << dh * dh + lo \div LIMB, lo % LIMB >>

\* The squares of lanes lo..hi, added up.  The loop of sse adds them in lane
\* order; a u64 sum does not depend on the order, and halving the range keeps
\* the evaluation shallow for 32 lanes.
RECURSIVE sse_lanes(_, _, _, _)
sse_lanes(a, b, lo, hi) ==
    IF lo > hi THEN U64(0)
    ELSE IF lo = hi THEN sq(a[lo], b[lo])
    ELSE LET mid == (lo + hi) \div 2
         IN  u64_add(sse_lanes(a, b, lo, mid), sse_lanes(a, b, mid + 1, hi))

\* sse(a, b): the sum over the lanes of the squared differences.
sse(a, b) == sse_lanes(a, b, 1, Len(a))

\* The iterations i = c, c + 1, ..., count - 1 of batch_median{i}'s loop:
\* load one vector per input, fuse, add every input's error, store the fused
\* vector.  More than one iteration is the first half of them, then the
\* second half from where the first half ended.  An empty out has no
\* iteration; asking for its length also makes the evaluation compute what
\* the first half left before the second half starts.
RECURSIVE batch_loop(_, _, _, _, _, _, _)
batch_loop(lanes, i, c, count, out, sse_, a) ==
    IF c >= count \/ Len(out) = 0
    THEN [panic |-> FALSE, out |-> out, sse |-> sse_]
    ELSE IF c + 1 = count
    THEN
        LET v  == Vec([j \in 1..i |->
                          SubSeq(a[j], c * lanes + 1, (c + 1) * lanes)])
            mv == median_n(i, v)
        IN  [panic |-> FALSE,
             out |-> SubSeq(out, 1, c * lanes) \o mv
                        \o SubSeq(out, (c + 1) * lanes + 1, Len(out)),
             sse |-> Vec([j \in 1..i |-> u64_add(sse_[j], sse(mv, v[j]))])]
    ELSE
        LET mid == (c + count) \div 2
            first == batch_loop(lanes, i, c, mid, out, sse_, a)
        IN  batch_loop(lanes, i, mid, count, first.out, first.sse, a)

\* batch_median{i} without sse_.fill(0u64).
batch_median_no_fill(lanes, i, out, sse_, a) ==
    LET len == Len(out)
    IN  IF len % 32 # 0 \/ \E j \in 1..i : Len(a[j]) # len
        THEN [panic |-> TRUE, out |-> out, sse |-> sse_]
        ELSE batch_loop(lanes, i, 0, len \div lanes, out, sse_, a)

\* batch_median{i} whose loop runs len / size_of::<type>() times.
batch_median_half_loop(lanes, i, out, sse_, a) ==
    LET len  == Len(out)
        zero == Vec([j \in 1..i |-> U64(0)])
    IN  IF len % 32 # 0 THEN [panic |-> TRUE, out |-> out, sse |-> sse_]
        ELSE IF \E j \in 1..i : Len(a[j]) # len
        THEN [panic |-> TRUE, out |-> out, sse |-> zero]
        ELSE batch_loop(lanes, i, 0, len \div (2 * lanes), out, zero, a)

\* batch_median without its assert_eq!(len % 32, 0).
batch_median_any_len(lanes, i, out, sse_, a) ==
    LET len  == Len(out)
        zero == Vec([j \in 1..i |-> U64(0)])
    IN  IF \E j \in 1..i : Len(a[j]) # len
        THEN [panic |-> TRUE, out |-> out, sse |-> zero]
        ELSE batch_loop(lanes, i, 0, len \div lanes, out, zero, a)

\* batch_median{i}(out, sse_, a0, ...): lanes is size_of::<type>() / 2, so
\* the loop bound len * 2 / size_of::<type>() is len / lanes.
batch_median(lanes, i, out, sse_, a) ==
    LET len  == Len(out)
        zero == Vec([j \in 1..i |-> U64(0)])
    IN  IF len % 32 # 0 THEN [panic |-> TRUE, out |-> out, sse |-> sse_]
        ELSE IF \E j \in 1..i : Len(a[j]) # len
        THEN [panic |-> TRUE, out |-> out, sse |-> zero]
        ELSE batch_loop(lanes, i, 0, len \div lanes, out, zero, a)

\* batch_median_n: dispatch on a.len(); sse_.try_into().unwrap() panics
\* unless sse_ has exactly a.len() slots.
batch_median_n(lanes, out, a, sse_) ==
    IF Len(a) \in MIN_KERNEL_INPUTS..MAX_KERNEL_INPUTS /\ Len(sse_) = Len(a)
    THEN batch_median(lanes, Len(a), out, sse_, a)
    ELSE [panic |-> TRUE, out |-> out, sse |-> sse_]

\* Lanes of 16 bits in __m128i, __m256i and __m512i.
LANES_128 == 8
LANES_256 == 16
LANES_512 == 32

\* median::batch_n: the widest backend the processor supports;
\* unimplemented!() without one.
batch_n(features, out, a, sse_) ==
    IF "avx512bw" \in features THEN batch_median_n(LANES_512, out, a, sse_)
    ELSE IF "avx2" \in features THEN batch_median_n(LANES_256, out, a, sse_)
    ELSE IF "sse4.1" \in features THEN batch_median_n(LANES_128, out, a, sse_)
    ELSE [panic |-> TRUE, out |-> out, sse |-> sse_]

\* The variables of the kernel, where a specification leaves them unused.
KernelIdle ==
    /\ cpu = {}
    /\ va = << >>
    /\ m = << >>
    /\ in_luma = << >>
    /\ in_chroma = << >>
    /\ new_luma = << >>
    /\ new_chroma = << >>
    /\ sse_luma = << >>
    /\ sse_luma_edge = << >>
    /\ sse_chroma = << >>

\* The variables of the dropout merge, where a specification leaves them
\* unused.
MergeIdle ==
    /\ args_dropout_threshold = {}
    /\ dropout_threshold = 0
    /\ dropouts = << >>
    /\ flat_dropouts = << >>
    /\ drop_outs = [some |-> FALSE, spans |-> << >>]
    /\ depth_underflow = FALSE
    /\ first_merge = [fed |-> FALSE, spans |-> << >>]

\* out_fieldmap of a run without --fieldmap-csv: None.
NoFieldmap == [some |-> FALSE, lines |-> << >>]

\* The variables of the field loop, where a specification leaves them
\* unused.
SyncIdle ==
    /\ args = [start_field |-> << >>, max_fields |-> 0, dupes_to_drops |-> FALSE,
                        fieldmap_csv |-> FALSE]
    /\ fields = << >>
    /\ inputs = << >>
    /\ out_fields = << >>
    /\ out_samples = << >>
    /\ new_field = [seq_no |-> 0, source |-> 0, is_first_field |-> FALSE]
    /\ new_samples = << >>
    /\ dupes_written = 0
    /\ drop_next = FALSE
    /\ log = << >>
    /\ opened = 0
    /\ created = {}
    /\ out_fieldmap = NoFieldmap
    /\ out_meta = [written |-> FALSE, fields |-> << >>,
                   number_of_sequential_fields |-> 0]

\* The variables of the bad-input tracking, where a specification leaves
\* them unused.
MetricsIdle ==
    /\ rmse_psnr = << >>
    /\ rmse_bad_in_a_row = << >>
    /\ history = << >>

\* The output sample files, where a specification leaves them unused.
FilesIdle ==
    /\ out_luma = << >>
    /\ out_chroma = << >>

-----------------------------------------------------------------------------
(* SpecMedian: median{i} applied to one tuple of samples, one lane wide.   *)

ExtremeSamples == {0, U16_MAX}
WideSamples == {0, 1, U16_MAX - 1, U16_MAX}

KernelCounts == MIN_KERNEL_INPUTS..MAX_KERNEL_INPUTS

Tuples(n) ==
    IF n <= MaxWideN THEN [1..n -> WideSamples] ELSE [1..n -> ExtremeSamples]

InitMedian ==
    /\ pc = "median"
    /\ \E n \in KernelCounts : \E t \in Tuples(n) :
           va = [j \in 1..n |-> << t[j] >>]
    /\ m = << >>
    /\ cpu = {}
    /\ in_luma = << >>
    /\ in_chroma = << >>
    /\ new_luma = << >>
    /\ new_chroma = << >>
    /\ sse_luma = << >>
    /\ sse_luma_edge = << >>
    /\ sse_chroma = << >>
    /\ MergeIdle
    /\ SyncIdle
    /\ MetricsIdle
    /\ FilesIdle

CallMedian ==
    /\ pc = "median"
    /\ m' = median_n(Len(va), va)
    /\ pc' = "median_done"
    /\ UNCHANGED << cpu, va, in_luma, in_chroma, new_luma, new_chroma,
                    sse_luma, sse_luma_edge, sse_chroma >>
    /\ UNCHANGED << merge_vars, sync_vars, metric_vars, file_vars >>

NextMedian == CallMedian

SpecMedian == InitMedian /\ [][NextMedian]_vars

\* The k-th smallest (k counted from 0) of the values of tuple t, by rank.
OrderStat(t, k) ==
    CHOOSE x \in {t[j] : j \in DOMAIN t} :
        /\ Cardinality({j \in DOMAIN t : t[j] < x}) <= k
        /\ Cardinality({j \in DOMAIN t : t[j] <= x}) > k

\* The fused sample the specification asks for at one position.
RefMedian(t) ==
    LET n == Len(t)
    IN  IF n % 2 = 1 THEN OrderStat(t, n \div 2)
        ELSE (OrderStat(t, n \div 2 - 1) + OrderStat(t, n \div 2) + 1) \div 2

\* C1: for every N in 3..15 and every tuple of N samples, the fused sample
\* is the middle element of the sorted tuple for odd N and the average of
\* the two middle elements rounded half up, without 16-bit wrap, for even N.
C1_MedianIsMiddle ==
    pc = "median_done" =>
        m[1] = RefMedian([j \in 1..Len(va) |-> va[j][1]])

\* An even N whose two middle elements are 0 and 65535: the average 32768
\* needs the 17th bit of the sum.
C1_Witness ==
    /\ pc = "median_done"
    /\ Len(va) = 14
    /\ m[1] = 32768

-----------------------------------------------------------------------------
(* SpecKernel: the fusion of one field in main's loop, from the read of    *)
(* the inputs to the chroma call.  The field is scaled down: the sample    *)
(* ranges of SYSTEM_PAL / SYSTEM_NTSC become whole blocks of 32 samples.   *)

BLOCK == 32

useful_start_sample == BLOCK * PreBlocks
useful_end_sample == BLOCK * (PreBlocks + UsefulBlocks)
field_size == BLOCK * (PreBlocks + UsefulBlocks + PostBlocks) - TailPad
field_size_rounded == ((field_size + BLOCK - 1) \div BLOCK) * BLOCK

\* The feature sets a processor can report: each level includes the lower.
CpuLevels ==
    { {}, {"sse4.1"}, {"sse4.1", "avx2"}, {"sse4.1", "avx2", "avx512bw"} }

\* Where a single perturbed sample is placed: the last sample before the
\* useful range, the first of it, and the first after it.
SpikeAt == {useful_start_sample - 1, useful_start_sample, useful_end_sample}

Scenarios(n) ==
    [kind : {"equal", "monotonic", "alternating", "scramble"}, who : {0}, at : {0}]
    \cup [kind : {"spike"}, who : {1, n}, at : SpikeAt]

\* Sample p (from 0) of input j (from 1) of a field of scenario sc.
Sample(sc, j, p) ==
    CASE sc.kind = "equal"       -> 32768
      [] sc.kind = "monotonic"   -> 1000 * j + p
      [] sc.kind = "alternating" -> IF (j + p) % 2 = 0 THEN 0 ELSE U16_MAX
      [] sc.kind = "scramble"    -> (j * 7919 + p * 104729 + j * p * 31) % 65536
      [] sc.kind = "spike"       ->
            20000 + p + (IF j = sc.who /\ p = sc.at THEN 1000 ELSE 0)

Zeros(len) == Vec([p \in 1..len |-> 0])

\* s[from..to] of the program.
Slice(s, from, to) == SubSeq(s, from + 1, to)

\* s with s[from..from + part.len()] replaced by part.
Patch(s, from, part) ==
    SubSeq(s, 1, from) \o part \o SubSeq(s, from + Len(part) + 1, Len(s))

InitKernel ==
    /\ pc = "read"
    /\ cpu \in CpuLevels
    /\ \E n \in KernelCounts :
        /\ in_luma = [j \in 1..n |-> Zeros(field_size_rounded)]
        /\ in_chroma = [j \in 1..n |-> Zeros(field_size_rounded)]
        /\ sse_luma = [j \in 1..n |-> U64(0)]
        /\ sse_luma_edge = [j \in 1..n |-> U64(0)]
        /\ sse_chroma = [j \in 1..n |-> U64(0)]
    /\ new_luma = Zeros(field_size_rounded)
    /\ new_chroma = Zeros(field_size_rounded)
    /\ va = << >>
    /\ m = << >>
    /\ MergeIdle
    /\ SyncIdle
    /\ MetricsIdle
    /\ FilesIdle

\* read_exact into in_luma[i][0..field_size] and in_chroma[i][0..field_size].
ReadFields ==
    /\ pc = "read"
    /\ \E sc \in Scenarios(Len(in_luma)) :
        /\ in_luma' = [j \in 1..Len(in_luma) |->
              Patch(in_luma[j], 0, Vec([p \in 1..field_size |-> Sample(sc, j, p - 1)]))]
        /\ in_chroma' = [j \in 1..Len(in_chroma) |->
              Patch(in_chroma[j], 0,
                    Vec([p \in 1..field_size |-> Sample(sc, j, field_size - p)]))]
    /\ pc' = "luma_pre"
    /\ UNCHANGED << cpu, va, m, new_luma, new_chroma,
                    sse_luma, sse_luma_edge, sse_chroma >>
    /\ UNCHANGED << merge_vars, sync_vars, metric_vars, file_vars >>

\* The call of batch_n on [from, to) of the luma plane with slot array sse_.
LumaCall(from, to, sse_) ==
    batch_n(cpu, Slice(new_luma, from, to),
            Vec([j \in 1..Len(in_luma) |-> Slice(in_luma[j], from, to)]), sse_)

\* batch_n(new_luma[0..useful_start_sample], ..., sse_luma_edge)
FuseLumaPre ==
    /\ pc = "luma_pre"
    /\ \E r \in {LumaCall(0, useful_start_sample, sse_luma_edge)} :
           /\ new_luma' = Patch(new_luma, 0, r.out)
           /\ sse_luma_edge' = r.sse
           /\ pc' = IF r.panic THEN "panic" ELSE "luma_useful"
    /\ UNCHANGED << cpu, va, m, in_luma, in_chroma, new_chroma,
                    sse_luma, sse_chroma >>
    /\ UNCHANGED << merge_vars, sync_vars, metric_vars, file_vars >>

\* batch_n(new_luma[useful_start_sample..useful_end_sample], ..., sse_luma)
FuseLumaUseful ==
    /\ pc = "luma_useful"
    /\ \E r \in {LumaCall(useful_start_sample, useful_end_sample, sse_luma)} :
           /\ new_luma' = Patch(new_luma, useful_start_sample, r.out)
           /\ sse_luma' = r.sse
           /\ pc' = IF r.panic THEN "panic" ELSE "luma_post"
    /\ UNCHANGED << cpu, va, m, in_luma, in_chroma, new_chroma,
                    sse_luma_edge, sse_chroma >>
    /\ UNCHANGED << merge_vars, sync_vars, metric_vars, file_vars >>

\* batch_n(new_luma[useful_end_sample..field_size_rounded], ..., sse_luma_edge)
FuseLumaPost ==
    /\ pc = "luma_post"
    /\ \E r \in {LumaCall(useful_end_sample, field_size_rounded, sse_luma_edge)} :
           /\ new_luma' = Patch(new_luma, useful_end_sample, r.out)
           /\ sse_luma_edge' = r.sse
           /\ pc' = IF r.panic THEN "panic" ELSE "chroma"
    /\ UNCHANGED << cpu, va, m, in_luma, in_chroma, new_chroma,
                    sse_luma, sse_chroma >>
    /\ UNCHANGED << merge_vars, sync_vars, metric_vars, file_vars >>

\* batch_n(new_chroma, in_chroma[..][0..field_size_rounded], sse_chroma)
FuseChroma ==
    /\ pc = "chroma"
    /\ \E r \in {batch_n(cpu, new_chroma,
                    Vec([j \in 1..Len(in_chroma) |->
                        Slice(in_chroma[j], 0, field_size_rounded)]),
                    sse_chroma)} :
           /\ new_chroma' = r.out
           /\ sse_chroma' = r.sse
           /\ pc' = IF r.panic THEN "panic" ELSE "fused"
    /\ UNCHANGED << cpu, va, m, in_luma, in_chroma, new_luma,
                    sse_luma, sse_luma_edge >>
    /\ UNCHANGED << merge_vars, sync_vars, metric_vars, file_vars >>

NextKernel ==
    \/ ReadFields
    \/ FuseLumaPre
    \/ FuseLumaUseful
    \/ FuseLumaPost
    \/ FuseChroma

SpecKernel == InitKernel /\ [][NextKernel]_vars

-----------------------------------------------------------------------------
(* The scalar reference of the kernel: one sample position at a time, the  *)
(* samples sorted by rank, the error summed position by position.          *)

\* The samples of all inputs at position p (from 1).
Column(a, p) == Vec([j \in 1..Len(a) |-> a[j][p]])

\* The fused samples of positions from + 1 .. to of the inputs a.
RefOut(a, from, to) ==
    Vec([q \in 1..(to - from) |-> RefMedian(Column(a, from + q))])

\* The sum over q in lo..hi of (fused[q] - aj[from + q])^2, by halves.
RECURSIVE RefSseRange(_, _, _, _, _)
RefSseRange(aj, fused, from, lo, hi) ==
    IF lo > hi THEN U64(0)
    ELSE IF lo = hi THEN sq(fused[lo], aj[from + lo])
    ELSE LET mid == (lo + hi) \div 2
         IN  u64_add(RefSseRange(aj, fused, from, lo, mid),
                     RefSseRange(aj, fused, from, mid + 1, hi))

\* Per input, the sum over positions from + 1 .. to of (fused - input)^2.
RefSse(a, from, to) ==
    LET fused == RefOut(a, from, to)
    IN  Vec([j \in 1..Len(a) |-> RefSseRange(a[j], fused, from, 1, to - from)])

BackendLanes == {LANES_128, LANES_256, LANES_512}

\* C2: for every N and equal-length inputs of a multiple of 32 samples,
\* the 8-, 16- and 32-lane backends return the same fused output and the
\* same squared errors, equal to the one-sample-at-a-time reference, and
\* so does whichever backend batch_n dispatched to.
C2_BackendsAgree ==
    pc = "fused" =>
        /\ new_luma = RefOut(in_luma, 0, field_size_rounded)
        /\ new_chroma = RefOut(in_chroma, 0, field_size_rounded)
        /\ sse_chroma = RefSse(in_chroma, 0, field_size_rounded)
        /\ sse_luma = RefSse(in_luma, useful_start_sample, useful_end_sample)
        /\ \A lanes \in BackendLanes :
              batch_median_n(lanes, Zeros(field_size_rounded), in_chroma, sse_luma)
                = [panic |-> FALSE, out |-> new_chroma, sse |-> sse_chroma]

\* A fused field of 15 inputs with unequal samples, fused by the 8-lane
\* backend (four loop iterations per block of 32).
C2_Witness ==
    /\ pc = "fused"
    /\ cpu = {"sse4.1"}
    /\ Len(in_chroma) = 15
    /\ \E j \in 1..15 : sse_chroma[j] # U64(0)

\* The inputs are three, two of them equal everywhere and input s larger
\* by 1000 at position q (from 1) and equal to them elsewhere.
SpikeCase(a, s, q) ==
    /\ Len(a) = 3
    /\ \A j \in 1..3 : \A k \in 1..3 : \A p \in 1..Len(a[1]) :
          (j # s /\ k # s) => a[j][p] = a[k][p]
    /\ \E o \in 1..3 :
          /\ o # s
          /\ a[s][q] = a[o][q] + 1000
          /\ \A p \in 1..Len(a[1]) : p # q => a[s][p] = a[o][p]

\* C3: after a kernel call returns, slot i holds the sum over the call's
\* positions of (fused - input_i)^2 and nothing the slot held before; for
\* three inputs of which one is larger by 1000 at one position, the fused
\* sample there is the common value, that input's slot is 1000000 and the
\* other two are 0.
C3_SlotIsCallSum ==
    /\ pc = "luma_useful" =>
          sse_luma_edge = RefSse(in_luma, 0, useful_start_sample)
    /\ pc = "luma_post" =>
          sse_luma = RefSse(in_luma, useful_start_sample, useful_end_sample)
    /\ pc = "chroma" =>
          sse_luma_edge = RefSse(in_luma, useful_end_sample, field_size_rounded)
    /\ pc = "fused" =>
          sse_chroma = RefSse(in_chroma, 0, field_size_rounded)
    /\ pc = "chroma" =>
          \A s \in 1..Len(in_luma) :
          \A q \in (useful_end_sample + 1)..field_size_rounded :
              SpikeCase(in_luma, s, q) =>
                  /\ new_luma[q] = in_luma[s][q] - 1000
                  /\ \A j \in 1..3 :
                        sse_luma_edge[j] = IF j = s THEN U64(1000000) ELSE U64(0)

\* The slot array sse_luma_edge held 1000000 for an input after the first
\* luma call and holds 0 for it after the third.
C3_Witness ==
    /\ pc = "chroma"
    /\ \E j \in 1..Len(in_luma) :
          /\ RefSse(in_luma, 0, useful_start_sample)[j] = U64(1000000)
          /\ sse_luma_edge[j] = U64(0)

\* The perturbed sample lies after the useful range: the third call leaves
\* exactly 1000000 in the slot of the perturbed input.
C3_SpikeWitness ==
    /\ pc = "chroma"
    /\ \E s \in 1..Len(in_luma) :
          /\ SpikeCase(in_luma, s, useful_end_sample + 1)
          /\ sse_luma_edge[s] = U64(1000000)

\* C4: after the three luma calls of a field, sse_luma_edge[i] + sse_luma[i]
\* is the squared error of one call over the whole rounded field, for every
\* input i.
C4_EdgePlusUsefulIsTotal ==
    pc = "chroma" =>
        \A i \in 1..Len(in_luma) :
            u64_add(sse_luma_edge[i], sse_luma[i])
              = RefSse(in_luma, 0, field_size_rounded)[i]

-----------------------------------------------------------------------------
(* The dropout consensus merge of main's loop.  A DropOuts value, three    *)
(* parallel vectors field_line / startx / endx, is a sequence of records;  *)
(* an Option is a record with a flag.                                      *)

field_width == MergeWidth
field_height == MergeHeight

\* inputs.len().div_ceil(2)
div_ceil2(n) == (n + 1) \div 2

\* args.dropout_threshold.unwrap_or(inputs.len().div_ceil(2))
threshold_of(override, n) ==
    IF override = {} THEN div_ceil2(n) ELSE CHOOSE k \in override : TRUE

\* events_of that keeps the spans with line >= field_height.
events_of_any_line(list, j) ==
    LET RECURSIVE go(_)
        go(k) ==
            IF k > Len(list) THEN << >>
            ELSE << << list[k].field_line * field_width + list[k].startx, "Start" >>,
                    << list[k].field_line * field_width + list[k].endx, "End" >> >>
                 \o go(k + 1)
    IN  go(j)

\* The events one input pushes: none for a span with line >= field_height,
\* else a Start at line * field_width + startx and an End at
\* line * field_width + endx.
RECURSIVE events_of(_, _)
events_of(list, j) ==
    IF j > Len(list) THEN << >>
    ELSE IF list[j].field_line >= field_height THEN events_of(list, j + 1)
    ELSE << << list[j].field_line * field_width + list[j].startx, "Start" >>,
            << list[j].field_line * field_width + list[j].endx, "End" >> >>
         \o events_of(list, j + 1)

\* inputs.iter().flat_map(...).collect()
RECURSIVE flat_map(_, _)
flat_map(lists, i) ==
    IF i > Len(lists) THEN << >>
    ELSE events_of(lists[i], 1) \o flat_map(lists, i + 1)

\* The orders of s Start and e End events at one offset.
RECURSIVE TieOrders(_, _, _)
TieOrders(o, s, e) ==
    IF s = 0 /\ e = 0 THEN { << >> }
    ELSE (IF s > 0 THEN { << << o, "Start" >> >> \o r : r \in TieOrders(o, s - 1, e) }
          ELSE {})
         \cup
         (IF e > 0 THEN { << << o, "End" >> >> \o r : r \in TieOrders(o, s, e - 1) }
          ELSE {})

CountOf(flat, ev) == Cardinality({k \in 1..Len(flat) : flat[k] = ev})

\* The results sort_unstable_by(|a, b| a.0.cmp(&b.0)) can leave: the events
\* by ascending offset, events of one offset in any order.
RECURSIVE sorted_from(_, _)
sorted_from(flat, offsets) ==
    IF offsets = {} THEN { << >> }
    ELSE LET o == CHOOSE x \in offsets : \A y \in offsets : x <= y
         IN  { a \o r :
                 a \in TieOrders(o, CountOf(flat, << o, "Start" >>),
                                    CountOf(flat, << o, "End" >>)),
                 r \in sorted_from(flat, offsets \ {o}) }

sort_unstable_by(flat) ==
    sorted_from(flat, {flat[k][1] : k \in 1..Len(flat)})

\* The sweep over the sorted events, from event k on.
RECURSIVE sweep(_, _, _, _, _, _, _)
sweep(flat, k, threshold, depth, start, out, underflow) ==
    IF k > Len(flat)
    THEN [spans |-> out, underflow |-> underflow, depth |-> depth]
    ELSE IF flat[k][2] = "Start"
    THEN sweep(flat, k + 1, threshold, depth + 1,
               IF depth + 1 = threshold THEN flat[k][1] ELSE start,
               out, underflow)
    ELSE sweep(flat, k + 1, threshold, depth - 1, start,
               IF depth = threshold
               THEN LET line == start \div field_width
                    IN  Append(out, [field_line |-> line,
                                     startx |-> start - line * field_width,
                                     endx |-> flat[k][1] - line * field_width])
               ELSE out,
               underflow \/ depth = 0)

\* new_field.drop_outs of the sorted events: None without events, else the
\* spans the sweep closes, with depth = 0 and start = 0 at its beginning.
\* The depth is a usize: depth -= 1 at 0 panics with overflow checks and
\* wraps without; a negative depth stands for the wrapped value, which
\* equals no threshold and returns to 0 by as many increments.
consensus(flat, threshold) ==
    sweep(flat, 1, threshold, 0, 0, << >>, FALSE)

-----------------------------------------------------------------------------
(* SpecMerge: one merge of the dropouts of MIN_INPUT_STREAMS inputs, and   *)
(* the merge of its result, fed back as the only contribution with         *)
(* threshold 1.                                                            *)

Spans ==
    { sp \in [field_line : 0..field_height, startx : 0..field_width,
              endx : 0..field_width] : sp.startx <= sp.endx }

SpanKey(sp) ==
    (sp.field_line * (field_width + 1) + sp.startx) * (field_width + 1) + sp.endx

KeyBase == (field_height + 1) * (field_width + 1) * (field_width + 1)

\* The span lists of one input: at most MaxSpansPerInput spans, listed in
\* one order (the sort may leave events of one offset in any order, so the
\* sweep sees a list through its events alone).
SpanLists ==
    UNION { { l \in [1..n -> Spans] :
                \A j \in 1..(n - 1) : SpanKey(l[j]) <= SpanKey(l[j + 1]) } :
            n \in 0..MaxSpansPerInput }

RECURSIVE ListKey(_, _)
ListKey(l, j) ==
    IF j > Len(l) THEN 0 ELSE SpanKey(l[j]) + KeyBase * ListKey(l, j + 1)

\* Orders the span lists: by length, then by their spans.
ListRank(l) == << Len(l), ListKey(l, 1) >>

RankLeq(a, b) ==
    \/ ListRank(a)[1] < ListRank(b)[1]
    \/ ListRank(a)[1] = ListRank(b)[1] /\ ListRank(a)[2] <= ListRank(b)[2]

Overrides == { {} } \cup { {k} : k \in 0..MaxOverride }

\* The dropouts of the current field, per input: at most MaxSpans spans in
\* all, and of the assignments that differ only by a permutation of the
\* inputs the one with the lists in descending rank.
InitMerge ==
    /\ pc = "merge"
    /\ args_dropout_threshold \in Overrides
    /\ dropout_threshold = threshold_of(args_dropout_threshold, MIN_INPUT_STREAMS)
    /\ \E l1 \in SpanLists :
       \E l2 \in { l \in SpanLists :
                     Len(l1) + Len(l) <= MaxSpans /\ RankLeq(l, l1) } :
       \E l3 \in { l \in SpanLists :
                     Len(l1) + Len(l2) + Len(l) <= MaxSpans /\ RankLeq(l, l2) } :
           dropouts = << l1, l2, l3 >>
    /\ flat_dropouts = << >>
    /\ drop_outs = [some |-> FALSE, spans |-> << >>]
    /\ depth_underflow = FALSE
    /\ first_merge = [fed |-> FALSE, spans |-> << >>]
    /\ KernelIdle
    /\ SyncIdle
    /\ MetricsIdle
    /\ FilesIdle

\* Lines 425-477 of main.rs: collect the events, sort them, sweep.
MergeDropouts ==
    /\ pc = "merge"
    /\ \E sorted \in sort_unstable_by(flat_map(dropouts, 1)) :
       \E r \in {consensus(sorted, dropout_threshold)} :
          /\ flat_dropouts' = sorted
          /\ drop_outs' = IF sorted = << >>
                          THEN [some |-> FALSE, spans |-> << >>]
                          ELSE [some |-> TRUE, spans |-> r.spans]
          /\ depth_underflow' = r.underflow
    /\ pc' = IF first_merge.fed THEN "remerged" ELSE "merged"
    /\ UNCHANGED << args_dropout_threshold, dropout_threshold, dropouts,
                    first_merge >>
    /\ UNCHANGED << kernel_vars, sync_vars, metric_vars, file_vars >>

\* The consensus of a merge that ran to its end becomes the dropouts of
\* input 0, the other inputs have none, and the threshold is 1.
FeedBack ==
    /\ pc = "merged"
    /\ ~depth_underflow
    /\ first_merge' = [fed |-> TRUE, spans |-> drop_outs.spans]
    /\ dropouts' = [i \in 1..MIN_INPUT_STREAMS |->
                      IF i = 1 THEN drop_outs.spans ELSE << >>]
    /\ args_dropout_threshold' = {1}
    /\ dropout_threshold' = 1
    /\ pc' = "merge"
    /\ UNCHANGED << flat_dropouts, drop_outs, depth_underflow >>
    /\ UNCHANGED << kernel_vars, sync_vars, metric_vars, file_vars >>

NextMerge ==
    \/ MergeDropouts
    \/ FeedBack

SpecMerge == InitMerge /\ [][NextMerge]_vars

-----------------------------------------------------------------------------
(* The claims about the dropout merge.                                     *)

\* The absolute sample offsets of a field and of the line after it.
Offsets == 0..((field_height + 1) * field_width - 1)

Covers(sp, o) ==
    /\ sp.field_line * field_width + sp.startx <= o
    /\ o < sp.field_line * field_width + sp.endx

\* The offsets the spans of a list cover.
Covered(list) == { o \in Offsets : \E j \in 1..Len(list) : Covers(list[j], o) }

\* The contributed spans, as (input, position in its list).
Contributed == { c \in (1..Len(dropouts)) \X (1..MaxSpans) : c[2] <= Len(dropouts[c[1]]) }

SpanAt(c) == dropouts[c[1]][c[2]]

\* How many contributed spans below field_height cover offset o.
CoverCount(o) ==
    Cardinality({ c \in Contributed :
                    SpanAt(c).field_line < field_height /\ Covers(SpanAt(c), o) })

\* How many inputs have a span below field_height that covers offset o.
CoverInputs(o) ==
    Cardinality({ i \in 1..Len(dropouts) :
                    \E j \in 1..Len(dropouts[i]) :
                        /\ dropouts[i][j].field_line < field_height
                        /\ Covers(dropouts[i][j], o) })

AllNonEmpty == \A c \in Contributed : SpanAt(c).startx < SpanAt(c).endx

Merged == pc \in {"merged", "remerged"}

ThresholdAsConfigured ==
    dropout_threshold =
        IF args_dropout_threshold = {} THEN (Len(dropouts) + 1) \div 2
        ELSE CHOOSE k \in args_dropout_threshold : TRUE

\* C5 as stated: with the threshold the override or ceil(N/2) and every
\* contributed span non-empty, the emitted spans cover exactly the offsets
\* that at least threshold contributed spans below field_height cover.
C5_Original ==
    (Merged /\ AllNonEmpty) =>
        /\ ThresholdAsConfigured
        /\ ~depth_underflow
        /\ Covered(drop_outs.spans) = { o \in Offsets : CoverCount(o) >= dropout_threshold }

\* C5 (amended): the same for a threshold of at least 1; with an override
\* of 0 no span is emitted.
C5_ConsensusCoverage ==
    (Merged /\ AllNonEmpty) =>
        /\ ThresholdAsConfigured
        /\ ~depth_underflow
        /\ dropout_threshold >= 1 =>
              Covered(drop_outs.spans)
                = { o \in Offsets : CoverCount(o) >= dropout_threshold }
        /\ dropout_threshold = 0 => drop_outs.spans = << >>

\* Default threshold 2 of three inputs: two spans overlap on one sample, a
\* third lies on a line >= field_height, and the consensus is that sample.
C5_Witness ==
    /\ pc = "merged"
    /\ AllNonEmpty
    /\ args_dropout_threshold = {}
    /\ \E c \in Contributed : SpanAt(c).field_line >= field_height
    /\ drop_outs.spans = << [field_line |-> 0, startx |-> 1, endx |-> 2] >>

\* C6: a consensus span is emitted only over samples where at least
\* threshold distinct inputs report a dropout.
C6_DistinctInputs ==
    (Merged /\ AllNonEmpty) =>
        \A o \in Covered(drop_outs.spans) : CoverInputs(o) >= dropout_threshold

\* Every input contributes exactly one span.
OneSpanEach == \A i \in 1..Len(dropouts) : Len(dropouts[i]) = 1

AllValid == \A c \in Contributed : SpanAt(c).field_line < field_height

\* The inputs that contribute a span.
Contributing == { i \in 1..Len(dropouts) : Len(dropouts[i]) > 0 }

C7_Cases ==
    /\ ( /\ OneSpanEach
         /\ \A i \in 1..Len(dropouts) : dropouts[i] = dropouts[1]
         /\ dropout_threshold = 1 )
         => /\ ~depth_underflow
            /\ drop_outs.spans = dropouts[1]
    /\ (OneSpanEach /\ dropout_threshold = Len(dropouts))
         => Covered(drop_outs.spans)
              = { o \in Offsets : \A i \in 1..Len(dropouts) : Covers(dropouts[i][1], o) }
    /\ ( /\ \A i \in 1..Len(dropouts) : Len(dropouts[i]) <= 1
         /\ dropout_threshold > Cardinality(Contributing) )
         => drop_outs.spans = << >>

\* C7: N inputs contribute one span each, on lines below field_height;
\* coinciding spans and threshold 1 give that one span; threshold N gives
\* the intersection of the spans; a threshold above the number of
\* contributing inputs gives no span.
C7_UnionIntersection ==
    (pc = "merged" /\ AllValid) => C7_Cases

\* The three cases of C7 for spans that are not empty.
C7_NonEmptyCases ==
    (pc = "merged" /\ AllValid /\ AllNonEmpty) => C7_Cases

\* Threshold 3 of three inputs whose spans differ: the consensus is their
\* intersection, one sample.
C7_NonEmptyWitness ==
    /\ pc = "merged"
    /\ OneSpanEach
    /\ AllNonEmpty
    /\ dropout_threshold = 3
    /\ dropouts[1] # dropouts[2]
    /\ drop_outs.spans = << [field_line |-> 1, startx |-> 0, endx |-> 1] >>

\* C8: the merge of a consensus output, fed back as the only contribution
\* with threshold 1, ends normally and yields the same list of spans.
C8_Idempotent ==
    pc = "remerged" =>
        /\ ~depth_underflow
        /\ drop_outs.spans = first_merge.spans

\* The orders in which sort_unstable_by can leave the events of the
\* contributed spans.
EventOrders == sort_unstable_by(flat_map(dropouts, 1))

\* C23: the consensus output of a field is the same list of spans for every
\* order of the sweep events that share an absolute offset.
C23_TieOrderIrrelevant ==
    Merged =>
        \A sorted \in EventOrders :
            consensus(sorted, dropout_threshold).spans = drop_outs.spans

\* C24: a fused field has a dropout block only when the block holds at
\* least one span; when no consensus interval closes it has none, also
\* when inputs contributed spans that stayed below the threshold.
C24_NoneWhenNoneCloses ==
    Merged => (drop_outs.some <=> drop_outs.spans # << >>)

\* C28: the sweep never decrements the depth counter at 0, for contributed
\* spans with startx <= endx, zero-length spans included, and every order
\* of the events of one offset; the depth is 0 at the end of the sweep.
C28_NoUnderflow ==
    Merged =>
        /\ ~depth_underflow
        /\ consensus(flat_dropouts, dropout_threshold).depth = 0

\* The same for contributed spans that are not empty.
C28_NonEmptySpans ==
    (Merged /\ AllNonEmpty) =>
        /\ ~depth_underflow
        /\ consensus(flat_dropouts, dropout_threshold).depth = 0

\* Two spans that overlap on one sample reach threshold 2 and the sweep
\* ends at depth 0 without an underflow.
C28_NonEmptyWitness ==
    /\ pc = "merged"
    /\ AllNonEmpty
    /\ dropout_threshold = 2
    /\ Len(flat_dropouts) = 4
    /\ drop_outs.spans = << [field_line |-> 0, startx |-> 1, endx |-> 2] >>
    /\ ~depth_underflow

\* C29: with every contributed span non-empty and within one scan line and
\* a threshold of at least 1, every emitted span is non-empty and ends on
\* the scan line it starts on, for every order of the events of one offset.
C29_SpansWellFormed ==
    (Merged /\ AllNonEmpty /\ dropout_threshold >= 1) =>
        \A k \in 1..Len(drop_outs.spans) :
            /\ drop_outs.spans[k].startx < drop_outs.spans[k].endx
            /\ drop_outs.spans[k].endx <= field_width

-----------------------------------------------------------------------------
(* The field loop of main: the synchronisation of the inputs.  A field of  *)
(* an input is its seq_no; the samples of a fused field are named by the   *)
(* 0-based fields of the inputs they were fused from.  The state of the    *)
(* loop is a record st with the fields of sync_vars and pc.                *)

\* An InputTbc whose dupe_count starts at 0 whatever the start field.
InputTbc_aligned(a, i) ==
    [field_index |-> a.start_field[i] - 1,
     dupe_count  |-> 0,
     last_seq_no |-> 0]

\* InputTbc of input i, as built before the loop.
InputTbc(a, i) ==
    [field_index |-> a.start_field[i] - 1,
     dupe_count  |-> (a.start_field[i] - 1) % 2,
     last_seq_no |-> 0]

\* The isFirstField of the input field with sequence number n: the model's
\* inputs flag their fields of odd seq_no.
is_first_field_of(n) == n % 2 = 1

\* inputs[0].metadata.fields[inputs[0].field_index].clone()
clone_field(flds, inp) ==
    [seq_no |-> flds[1][inp[1].field_index + 1],
     source |-> inp[1].field_index,
     is_first_field |-> is_first_field_of(flds[1][inp[1].field_index + 1])]

\* (MIN_INPUT_STREAMS..MAX_INPUT_STREAMS).contains(&args.input_basename.len())
count_accepted(n) == MIN_INPUT_STREAMS <= n /\ n < MAX_INPUT_STREAMS

\* The files main creates before the loop.
OutputFiles == {"tbc", "chroma_tbc"}

\* main up to the loop: the argument checks, the inputs, the output files,
\* the first new_field.  The inputs are one per basename; every input is
\* opened before the field order of the first is checked.
startup(a, flds) ==
    LET idle == [inputs |-> << >>, out_fields |-> << >>, out_samples |-> << >>,
                 new_field |-> [seq_no |-> 0, source |-> 0,
                                is_first_field |-> FALSE],
                 new_samples |-> << >>, dupes_written |-> 0,
                 drop_next |-> FALSE, log |-> << >>, opened |-> 0,
                 created |-> {}, out_fieldmap |-> NoFieldmap, pc |-> "abort"]
    IN  IF ~count_accepted(Len(flds)) THEN idle
        ELSE IF Len(flds) # Len(a.start_field) THEN idle
        ELSE LET inp == Vec([i \in 1..Len(flds) |-> InputTbc(a, i)])
                 ready == [idle EXCEPT !.inputs = inp, !.opened = Len(flds)]
             IN  IF inp[1].dupe_count # 0 THEN ready
                 ELSE IF inp[1].field_index >= Len(flds[1])
                 THEN [ready EXCEPT !.created = OutputFiles,
                                    !.out_fieldmap.some = a.fieldmap_csv]
                 ELSE [ready EXCEPT !.created = OutputFiles,
                                    !.out_fieldmap.some = a.fieldmap_csv,
                                    !.new_field = clone_field(flds, inp),
                                    !.pc = "loop"]

\* A check of the first input alone.
any_ended_first(inp, flds) == inp[1].field_index = Len(flds[1])

\* inputs.iter().any(|i| i.field_index == i.metadata.fields.len())
any_ended(inp, flds) ==
    \E i \in 1..Len(inp) : inp[i].field_index = Len(flds[i])

\* The index of f.metadata.fields[f.field_index] is out of bounds for some
\* input (one that starts beyond its last field): the run panics.
past_end(inp, flds) ==
    \E i \in 1..Len(inp) : inp[i].field_index >= Len(flds[i])

\* A cap that stops the loop one field late.
cap_reached_late(max_fields, n) == max_fields # 0 /\ n = max_fields + 1

\* max_fields != 0 && out_fields.len() == max_fields
cap_reached(max_fields, n) == max_fields # 0 /\ n = max_fields

\* A test that takes only a smaller seq_no for a duplicate.
is_dupe_strict(f, fl) == fl[f.field_index + 1] < f.last_seq_no

\* f.metadata.fields[f.field_index].seq_no <= f.last_seq_no
is_dupe(f, fl) == fl[f.field_index + 1] <= f.last_seq_no

\* A duplicate that is never taken for a new one.
looks_new_never(f, written) == FALSE

\* A duplicate taken for a new one on the opposite parity.
looks_new_opposite(f, written) == f.dupe_count % 2 # written % 2

\* f.dupe_count % 2 == dupes_written % 2
looks_new(f, written) == f.dupe_count % 2 = written % 2

\* A skipping that counts the duplicates and leaves the cursors.
skip_dupes_stay(inp, flds, written) ==
    [inputs |->
        Vec([i \in 1..Len(inp) |->
                IF is_dupe(inp[i], flds[i])
                THEN [inp[i] EXCEPT !.dupe_count = @ + 1]
                ELSE inp[i]]),
     should_write_dupe |->
        \E i \in 1..Len(inp) :
            is_dupe(inp[i], flds[i]) /\ looks_new(inp[i], written),
     skipped |->
        { << i, inp[i].field_index >> : i \in { j \in 1..Len(inp) : is_dupe(inp[j], flds[j]) } }]

\* The for loop over the inputs that skips the duplicates.
skip_dupes(inp, flds, written) ==
    [inputs |->
        Vec([i \in 1..Len(inp) |->
                IF is_dupe(inp[i], flds[i])
                THEN [inp[i] EXCEPT !.dupe_count = @ + 1, !.field_index = @ + 1]
                ELSE inp[i]]),
     should_write_dupe |->
        \E i \in 1..Len(inp) :
            is_dupe(inp[i], flds[i]) /\ looks_new(inp[i], written),
     skipped |->
        { << i, inp[i].field_index >> : i \in { j \in 1..Len(inp) : is_dupe(inp[j], flds[j]) } }]

\* The field_index of every input.
cursors(inp) == Vec([i \in 1..Len(inp) |-> inp[i].field_index])

\* The log with the entry of one iteration: what it was, the fields it
\* skipped as duplicates, the fields it fused, the cursors before and after
\* it, and the fields pushed and written so far.
logged(st, was, kind, skipped, fused) ==
    [st EXCEPT !.log = Append(@, [kind |-> kind, skipped |-> skipped,
                                  fused |-> fused,
                                  before |-> cursors(was.inputs),
                                  after |-> cursors(st.inputs),
                                  pushed |-> Len(st.out_fields),
                                  written |-> Len(st.out_samples)])]

\* A drop_next that is kept once set.
after_drop_kept(drop) == drop

\* if drop_next { drop_next = false; continue; }
after_drop(drop) == FALSE

\* An end of an iteration that writes the samples and pushes no field.
finish_unpushed(st) ==
    IF st.drop_next
    THEN [st EXCEPT !.drop_next = after_drop(@)]
    ELSE [st EXCEPT !.out_samples = Append(@, st.new_samples)]

\* The end of an iteration: the drop_next check, the writes and the push.
finish(st) ==
    IF st.drop_next
    THEN [st EXCEPT !.drop_next = after_drop(@)]
    ELSE [st EXCEPT !.out_samples = Append(@, st.new_samples),
                    !.out_fields = Append(@, st.new_field)]

\* format!("{},{}\n", new_field_idx + 1, str): the 1-based position of the
\* next output field and the 1-based field of every input.
fieldmap_line(new_field_idx, inp) ==
    << new_field_idx + 1, Vec([i \in 1..Len(inp) |-> inp[i].field_index + 1]) >>

\* if let Some(fieldmap) = out_fieldmap.as_mut() { fieldmap.write_all(..) }
write_fieldmap(fm, line) ==
    IF fm.some THEN [fm EXCEPT !.lines = Append(@, line)] ELSE fm

\* The fusion of the current fields: new_field.seq_no is set to
\* new_field_idx + 1, the line of the field map is written and new_field
\* is then replaced by the clone of input 0's field; the samples are fused;
\* every input records its seq_no and moves to its next field.
fuse(st, flds, inp) ==
    [[st EXCEPT !.new_field.seq_no = Len(st.out_fields) + 1] EXCEPT
        !.out_fieldmap = write_fieldmap(@, fieldmap_line(Len(st.out_fields), inp)),
        !.new_field = clone_field(flds, inp),
        !.new_samples = cursors(inp),
        !.inputs = Vec([i \in 1..Len(inp) |->
                          [inp[i] EXCEPT !.last_seq_no = flds[i][inp[i].field_index + 1],
                                         !.field_index = @ + 1]])]

\* One iteration of the loop.
loop_body(a, flds, st) ==
    IF cap_reached(a.max_fields, Len(st.out_fields))
    THEN logged([st EXCEPT !.pc = "exit"], st, "stop_max_fields", {}, << >>)
    ELSE IF any_ended(st.inputs, flds)
    THEN logged([st EXCEPT !.pc = "exit"], st, "stop_ended", {}, << >>)
    ELSE IF past_end(st.inputs, flds)
    THEN logged([st EXCEPT !.pc = "abort"], st, "panic", {}, << >>)
    ELSE LET sk == skip_dupes(st.inputs, flds, st.dupes_written)
         IN  IF any_ended(sk.inputs, flds)
             THEN logged([st EXCEPT !.inputs = sk.inputs, !.pc = "exit"],
                         st, "stop_after_skip", sk.skipped, << >>)
             ELSE IF sk.should_write_dupe
             THEN IF a.dupes_to_drops
                  THEN logged([st EXCEPT !.inputs = sk.inputs,
                                         !.dupes_written = @ + 1,
                                         !.drop_next = TRUE],
                              st, "dupe_drop", sk.skipped, << >>)
                  ELSE logged(finish([st EXCEPT !.inputs = sk.inputs,
                                                !.dupes_written = @ + 1]),
                              st, "dupe_write", sk.skipped, << >>)
             ELSE IF past_end(sk.inputs, flds)
             THEN logged([st EXCEPT !.inputs = sk.inputs, !.pc = "abort"],
                         st, "panic", sk.skipped, << >>)
             ELSE logged(finish(fuse(st, flds, sk.inputs)),
                         st, "fused", sk.skipped, cursors(sk.inputs))

\* The run from state st to the end of the loop.
RECURSIVE run(_, _, _)
run(a, flds, st) ==
    IF st.pc # "loop" THEN st ELSE run(a, flds, loop_body(a, flds, st))

-----------------------------------------------------------------------------
(* SpecSync: the runs of main over MIN_INPUT_STREAMS inputs.               *)

\* The seq_no lists of n fields: the first is 0 or 1 and each further one
\* repeats its predecessor or exceeds it by 1 (only the comparisons of
\* seq_no with last_seq_no decide the loop).
RECURSIVE SeqLists(_)
SeqLists(n) ==
    IF n = 0 THEN { << >> }
    ELSE IF n = 1 THEN { << 0 >>, << 1 >> }
    ELSE UNION { { Append(l, l[n - 1]), Append(l, l[n - 1] + 1) } : l \in SeqLists(n - 1) }

FieldLists(most) == UNION { SeqLists(n) : n \in 0..most }

StartFields == { << 1, 1, 1 >>, << 1, 2, 1 >>, << 2, 1, 1 >> }

SyncState ==
    [inputs |-> inputs, out_fields |-> out_fields, out_samples |-> out_samples,
     new_field |-> new_field, new_samples |-> new_samples,
     dupes_written |-> dupes_written, drop_next |-> drop_next, log |-> log,
     opened |-> opened, created |-> created, out_fieldmap |-> out_fieldmap,
     pc |-> pc]

\* The state r becomes the next state.
Becomes(r) ==
    /\ inputs' = r.inputs
    /\ out_fields' = r.out_fields
    /\ out_samples' = r.out_samples
    /\ new_field' = r.new_field
    /\ new_samples' = r.new_samples
    /\ dupes_written' = r.dupes_written
    /\ drop_next' = r.drop_next
    /\ log' = r.log
    /\ opened' = r.opened
    /\ created' = r.created
    /\ out_fieldmap' = r.out_fieldmap
    /\ pc' = r.pc
    /\ UNCHANGED << args, fields, out_meta, kernel_vars, merge_vars, metric_vars, file_vars >>

\* The start of main over inputs 1 and 3 of at most `most` fields and an
\* input 2 of at most one more, with or without --fieldmap-csv as maps says.
InitSyncOf(most, maps) ==
    /\ pc = "startup"
    /\ \E sf \in StartFields : \E cap \in {0, FieldCap} : \E d \in BOOLEAN :
       \E map \in maps :
          args = [start_field |-> sf, max_fields |-> cap, dupes_to_drops |-> d,
                  fieldmap_csv |-> map]
    /\ \E f1 \in FieldLists(most) : \E f2 \in FieldLists(most + 1) :
       \E f3 \in FieldLists(most) :
          fields = << f1, f2, f3 >>
    /\ inputs = << >>
    /\ out_fields = << >>
    /\ out_samples = << >>
    /\ new_field = [seq_no |-> 0, source |-> 0, is_first_field |-> FALSE]
    /\ new_samples = << >>
    /\ dupes_written = 0
    /\ drop_next = FALSE
    /\ log = << >>
    /\ opened = 0
    /\ created = {}
    /\ out_fieldmap = NoFieldmap
    /\ out_meta = [written |-> FALSE, fields |-> << >>,
                   number_of_sequential_fields |-> 0]
    /\ KernelIdle
    /\ MergeIdle
    /\ MetricsIdle
    /\ FilesIdle

InitSync == InitSyncOf(MaxFields, {FALSE})

\* main from its start to the loop.
Startup ==
    /\ pc = "startup"
    /\ \E r \in { startup(args, fields) } : Becomes(r)

LastKind(r) == r.log[Len(r.log)].kind

\* An iteration that leaves the loop.
Break ==
    /\ pc = "loop"
    /\ \E r \in { loop_body(args, fields, SyncState) } :
          r.pc \in {"exit", "abort"} /\ Becomes(r)

\* An iteration that marks a duplicate and turns it into a drop.
DropDupe ==
    /\ pc = "loop"
    /\ \E r \in { loop_body(args, fields, SyncState) } :
          r.pc = "loop" /\ LastKind(r) = "dupe_drop" /\ Becomes(r)

\* An iteration that marks a duplicate and writes it out.
WriteDupe ==
    /\ pc = "loop"
    /\ \E r \in { loop_body(args, fields, SyncState) } :
          r.pc = "loop" /\ LastKind(r) = "dupe_write" /\ Becomes(r)

\* An iteration that fuses a field.
FuseField ==
    /\ pc = "loop"
    /\ \E r \in { loop_body(args, fields, SyncState) } :
          r.pc = "loop" /\ LastKind(r) = "fused" /\ Becomes(r)

\* A body of the flag loop that leaves the flags of the inputs.
assign_flags_kept(out) == out

\* for (idx, field) in out_fields.iter_mut().enumerate()
\*     { field.is_first_field = idx % 2 == 0; }
assign_flags(out) ==
    Vec([k \in 1..Len(out) |-> [out[k] EXCEPT !.is_first_field = (k - 1) % 2 = 0]])

\* main after the loop: the flags of the output fields and the metadata.
WriteMetadata ==
    /\ pc = "exit"
    /\ \E flagged \in { assign_flags(out_fields) } :
          /\ out_fields' = flagged
          /\ out_meta' = [written |-> TRUE, fields |-> flagged,
                          number_of_sequential_fields |-> Len(flagged)]
    /\ created' = created \cup {"tbc_json"}
    /\ pc' = "done"
    /\ UNCHANGED << args, fields, inputs, out_samples, new_field, new_samples,
                    dupes_written, drop_next, log, opened, out_fieldmap >>
    /\ UNCHANGED << kernel_vars, merge_vars, metric_vars, file_vars >>

NextSync ==
    \/ Startup
    \/ Break
    \/ DropDupe
    \/ WriteDupe
    \/ FuseField
    \/ WriteMetadata

SpecSync == InitSync /\ [][NextSync]_vars

\* One iteration of the loop, whichever of Break, DropDupe, WriteDupe and
\* FuseField it is.
LoopStep ==
    /\ pc = "loop"
    /\ \E r \in { loop_body(args, fields, SyncState) } : Becomes(r)

\* The runs over shorter inputs of a process that is never suspended for
\* ever: main is one thread, and at each of its places (the start, the loop,
\* the writing of the metadata) it executes its next statement as long as
\* it has one.
SpecSyncFair ==
    /\ InitSyncOf(MaxFairFields, {FALSE})
    /\ [][NextSync]_vars
    /\ WF_vars(Startup)
    /\ WF_vars(LoopStep)
    /\ WF_vars(WriteMetadata)

-----------------------------------------------------------------------------
(* The claims about duplicates and drops.                                  *)

Strict(s) == \A i \in 1..(Len(s) - 1) : s[i] < s[i + 1]

Positive(s) == \A i \in 1..Len(s) : s[i] >= 1

\* s without its k-th element.
Without(s, k) == SubSeq(s, 1, k - 1) \o SubSeq(s, k + 1, Len(s))

\* Fields pushed before iteration p.
PushedBefore(p) == IF p = 1 THEN 0 ELSE log[p - 1].pushed

WrittenBefore(p) == IF p = 1 THEN 0 ELSE log[p - 1].written

\* Iteration p pushed an output field and wrote its samples.
Emitted(p) ==
    /\ log[p].pushed = PushedBefore(p) + 1
    /\ log[p].written = WrittenBefore(p) + 1

\* Iteration p pushed nothing and wrote nothing.
Silent(p) ==
    /\ log[p].pushed = PushedBefore(p)
    /\ log[p].written = WrittenBefore(p)

\* Iteration q is the first after iteration p that fuses a field.
NextFused(p, q) ==
    /\ q \in (p + 1)..Len(log)
    /\ log[q].kind = "fused"
    /\ \A r \in (p + 1)..(q - 1) : log[r].kind # "fused"

\* Streams 1 and 3 are strictly increasing passes of one length and stream
\* 2 is such a pass with its field k - 1 repeated as field k (from 1); all
\* start at their first field and duplicates become drops.
C9_Streams(k) ==
    /\ args.start_field = << 1, 1, 1 >>
    /\ args.dupes_to_drops
    /\ Strict(fields[1])
    /\ Strict(fields[3])
    /\ Len(fields[3]) = Len(fields[1])
    /\ Len(fields[2]) = Len(fields[1]) + 1
    /\ k \in 2..Len(fields[2])
    /\ fields[2][k] = fields[2][k - 1]
    /\ Strict(Without(fields[2], k))

\* The run of the same streams without the duplicate.
C9_PlainRun(k) ==
    run(args, << fields[1], Without(fields[2], k), fields[3] >>,
        startup(args, << fields[1], Without(fields[2], k), fields[3] >>))

C9_Outcome(k) ==
    /\ \E p \in 1..Len(log) :
          /\ << 2, k - 1 >> \in log[p].skipped
          /\ log[p].kind = "dupe_drop"
          /\ \E q \in 1..Len(log) : NextFused(p, q) /\ Silent(q)
    /\ Len(out_fields) = Len(C9_PlainRun(k).out_fields) - 1

\* C9 as stated: the duplicate of stream 2 is detected, one output field
\* less is emitted than without the duplicate, and the field fused after
\* the drop is not emitted.
C9_Original ==
    pc = "exit" => \A k \in 1..(MaxFields + 1) : C9_Streams(k) => C9_Outcome(k)

\* C9 (amended): the same for positive sequence numbers, no field cap and
\* a duplicated field that is not the last of the pass.
C9_DuplicateDropsOne ==
    pc = "exit" =>
        \A k \in 1..(MaxFields + 1) :
            ( /\ C9_Streams(k)
              /\ args.max_fields = 0
              /\ \A i \in 1..3 : Positive(fields[i])
              /\ k < Len(fields[2]) )
            => /\ C9_Outcome(k)
               /\ Len(C9_PlainRun(k).out_fields) = Len(fields[1])

\* Passes of three fields, the second duplicated in stream 2: the first
\* field is emitted, the third is fused and dropped.
C9_Witness ==
    /\ pc = "exit"
    /\ C9_Streams(3)
    /\ args.max_fields = 0
    /\ fields[2] = << 1, 2, 2, 3 >>
    /\ Len(out_fields) = 2
    /\ out_samples = << << 0, 0, 0 >>, << 1, 1, 1 >> >>

C10_Marked(p) == log[p].kind = "dupe_drop" => Silent(p)

C10_NextDropped(p) ==
    log[p].kind = "dupe_drop" =>
        \A q \in 1..Len(log) :
            NextFused(p, q) =>
                /\ Silent(q)
                /\ \A i \in 1..Len(log[q].after) : log[q].after[i] = log[q].fused[i] + 1

C10_Disabled ==
    ~args.dupes_to_drops =>
        \A p \in 1..Len(log) : log[p].kind = "fused" => Emitted(p)

\* C10 as stated: with the conversion, a duplicate-marked iteration emits
\* and writes nothing, the next fused field advances every cursor by one
\* and is not emitted, and the field fused after that is emitted; without
\* the conversion every fused field is emitted.
C10_Original ==
    /\ C10_Disabled
    /\ args.dupes_to_drops =>
          \A p \in 1..Len(log) :
              /\ C10_Marked(p)
              /\ C10_NextDropped(p)
              /\ log[p].kind = "dupe_drop" =>
                    \A q, r \in 1..Len(log) :
                        (NextFused(p, q) /\ NextFused(q, r)) => Emitted(r)

\* C10 (amended): the field fused after the dropped one is emitted unless
\* another iteration marks a duplicate between the two.
C10_DropAndNext ==
    /\ C10_Disabled
    /\ args.dupes_to_drops =>
          \A p \in 1..Len(log) :
              /\ C10_Marked(p)
              /\ C10_NextDropped(p)
              /\ log[p].kind = "dupe_drop" =>
                    \A q, r \in 1..Len(log) :
                        ( /\ NextFused(p, q)
                          /\ NextFused(q, r)
                          /\ \A x \in (q + 1)..(r - 1) : log[x].kind # "dupe_drop" )
                        => Emitted(r)

\* A duplicate is marked, the next fused field is dropped and the one
\* after it is emitted.
C10_Witness ==
    /\ args.dupes_to_drops
    /\ \E p, q, r \in 1..Len(log) :
          /\ log[p].kind = "dupe_drop"
          /\ NextFused(p, q)
          /\ NextFused(q, r)
          /\ Silent(q)
          /\ Emitted(r)

\* The next fused field after a marked duplicate moves every cursor by
\* exactly one over its whole iteration.
C10_WholeIteration ==
    \A p, q \in 1..Len(log) :
        (log[p].kind = "dupe_drop" /\ NextFused(p, q)) =>
            \A i \in 1..Len(log[q].after) : log[q].after[i] = log[q].before[i] + 1

-----------------------------------------------------------------------------
(* The claims about the output fields and the ends of the loop.            *)

\* C11: every emitted output field carries its 1-based position in the
\* output as its sequence number.
C11_SeqNoIsPosition ==
    \A k \in 1..Len(out_fields) : out_fields[k].seq_no = k

\* C12: after the run the output field at 0-based position k is flagged a
\* first field iff k is even, and the declared number of sequential fields
\* is the number of emitted fields.
C12_FlagsAlternate ==
    pc = "done" =>
        /\ out_meta.written
        /\ Len(out_meta.fields) = Len(out_samples)
        /\ out_meta.number_of_sequential_fields = Len(out_samples)
        /\ \A k \in 0..(Len(out_meta.fields) - 1) :
              out_meta.fields[k + 1].is_first_field <=> (k % 2 = 0)

\* Two fields emitted around a drop: the second, at position 1, is fused
\* from a field that input 0 flags as a first field.
C12_Witness ==
    /\ pc = "done"
    /\ Len(out_meta.fields) = 2
    /\ out_meta.fields[2].source = 2
    /\ is_first_field_of(out_meta.fields[2].seq_no)
    /\ ~out_meta.fields[2].is_first_field
    /\ \E p \in 1..Len(log) : log[p].kind = "dupe_drop"

\* Every input starts at one of its fields.
StartsWithin ==
    \A i \in 1..Len(fields) : args.start_field[i] - 1 < Len(fields[i])

Started == pc \in {"loop", "exit", "done"}

StopKinds == {"stop_max_fields", "stop_ended", "stop_after_skip"}

\* The cursors of iteration p after its duplicate skipping.
AfterSkip(p) == IF log[p].kind = "fused" THEN log[p].fused ELSE log[p].after

\* Some cursor of the tuple c is at the end of its input.
AtEnd(c) == \E i \in 1..Len(c) : c[i] = Len(fields[i])

\* C13: the loop stops as soon as a cursor equals its input's field count,
\* tested at the start of an iteration and after the duplicate skipping;
\* the stopping iteration pushes and writes nothing; no cursor exceeds its
\* field count and no record beyond a last field is read.
C13_StopsWhenEnded ==
    StartsWithin =>
        /\ Started => \A i \in 1..Len(inputs) : inputs[i].field_index <= Len(fields[i])
        /\ pc = "abort" => (log = << >> /\ args.start_field[1] % 2 = 0)
        /\ \A p \in 1..Len(log) :
              /\ log[p].kind # "panic"
              /\ AtEnd(log[p].before) => log[p].kind \in {"stop_max_fields", "stop_ended"}
              /\ log[p].kind = "stop_ended" => AtEnd(log[p].before)
              /\ log[p].kind \notin {"stop_max_fields", "stop_ended"}
                    => (AtEnd(AfterSkip(p)) <=> log[p].kind = "stop_after_skip")
              /\ log[p].kind \in StopKinds => (Silent(p) /\ p = Len(log) /\ pc # "loop")

\* A loop stopped after the skipping: input 2 skipped its last field.
C13_Witness ==
    /\ StartsWithin
    /\ pc = "exit"
    /\ Len(out_fields) = 2
    /\ log[Len(log)].kind = "stop_after_skip"
    /\ log[Len(log)].skipped = { << 2, Len(fields[2]) - 1 >> }

\* C14: with a cap the output never exceeds it and the loop stops, with no
\* input field read or skipped, in the first iteration that starts with as
\* many fields emitted; without a cap only the end of an input stops it.
C14_CapStops ==
    /\ args.max_fields # 0 =>
          /\ Len(out_fields) <= args.max_fields
          /\ Len(out_samples) <= args.max_fields
          /\ \A p \in 1..Len(log) :
                PushedBefore(p) = args.max_fields =>
                    /\ log[p].kind = "stop_max_fields"
                    /\ log[p].after = log[p].before
                    /\ log[p].skipped = {}
                    /\ Silent(p)
                    /\ p = Len(log)
                    /\ pc # "loop"
    /\ \A p \in 1..Len(log) :
          log[p].kind = "stop_max_fields" =>
              (args.max_fields # 0 /\ PushedBefore(p) = args.max_fields)
    /\ (args.max_fields = 0 /\ pc \in {"exit", "done"}) => AtEnd(cursors(inputs))

\* The cap stops a run whose inputs all have a field left.
C14_Witness ==
    /\ pc = "exit"
    /\ args.max_fields = FieldCap
    /\ Len(out_samples) = FieldCap
    /\ log[Len(log)].kind = "stop_max_fields"
    /\ ~AtEnd(cursors(inputs))

\* The current field of input i is a duplicate: its sequence number is at
\* most the last one the input was fused from.
Stale(i) == fields[i][inputs[i].field_index + 1] <= inputs[i].last_seq_no

Advance(i) == IF Stale(i) THEN 1 ELSE 0

\* The entry the step adds to the log.
NewEntry == log'[Len(log')]

\* The step is an iteration that ran the duplicate skipping.
SkippingStep ==
    /\ pc = "loop"
    /\ Len(log') = Len(log) + 1
    /\ NewEntry.kind \in {"stop_after_skip", "dupe_drop", "dupe_write", "fused"}

\* C20: the duplicate skipping advances the cursor and the parity counter
\* of exactly the inputs whose current seq_no is <= their last emitted one,
\* by one, and changes nothing else of any input.
C20_SkipsExactlyDupes ==
    [][ SkippingStep =>
          \A i \in 1..Len(inputs) :
              /\ (IF NewEntry.kind = "fused" THEN NewEntry.fused[i] ELSE NewEntry.after[i])
                    = inputs[i].field_index + Advance(i)
              /\ inputs'[i].dupe_count = inputs[i].dupe_count + Advance(i)
              /\ (<< i, inputs[i].field_index >> \in NewEntry.skipped) <=> Stale(i)
              /\ NewEntry.kind # "fused" =>
                    inputs'[i].last_seq_no = inputs[i].last_seq_no
              /\ NewEntry.kind = "fused" =>
                    /\ inputs'[i].field_index = inputs[i].field_index + Advance(i) + 1
                    /\ inputs'[i].last_seq_no = fields[i][NewEntry.fused[i] + 1]
      ]_vars

\* An iteration skipped a field of input 2 alone, whose parity counter
\* became 1, and fused the fields after it.
C20_Witness ==
    /\ pc = "loop"
    /\ Len(log) > 1
    /\ log[Len(log)].kind = "fused"
    /\ log[Len(log)].skipped = { << 2, log[Len(log)].before[2] >> }
    /\ inputs[2].dupe_count = 1
    /\ inputs[1].dupe_count = 0
    /\ inputs[2].field_index = log[Len(log)].before[2] + 2

-----------------------------------------------------------------------------
(* The claims about the marking of duplicates and what a marked iteration  *)
(* emits.                                                                  *)

\* The step is one iteration of the loop.
IterationStep == pc = "loop" /\ Len(log') = Len(log) + 1

\* The kinds of the iterations that take the should_write_dupe branch.
MarkKinds == {"dupe_drop", "dupe_write"}

\* Input i skips a duplicate in the step, and its parity counter, before
\* the increment, has the parity of the duplicates written so far.
Matching(i) == Stale(i) /\ inputs[i].dupe_count % 2 = dupes_written % 2

\* The written-duplicates counter rises by one in a marking iteration and
\* stays in every other one.
CountsMarks ==
    dupes_written' = dupes_written + (IF NewEntry.kind \in MarkKinds THEN 1 ELSE 0)

\* C21 as stated: an iteration marks its field iff some input skipped a
\* duplicate on the matching parity, and the counter counts the marks.
C21_Original ==
    [][ IterationStep =>
          /\ NewEntry.kind \in MarkKinds
                <=> (SkippingStep /\ \E i \in 1..Len(inputs) : Matching(i))
          /\ CountsMarks
      ]_vars

\* C21 (amended): an iteration marks its field iff some input skipped a
\* duplicate on the matching parity and no input is at its end after the
\* skipping; the written-duplicates counter rises by exactly one in a
\* marking iteration and is unchanged in every other iteration.
C21_MarksOnParity ==
    [][ IterationStep =>
          /\ NewEntry.kind \in MarkKinds
                <=> ( /\ SkippingStep
                      /\ NewEntry.kind # "stop_after_skip"
                      /\ \E i \in 1..Len(inputs) : Matching(i) )
          /\ CountsMarks
      ]_vars

\* The first marking iteration of a run, triggered by two inputs at once:
\* the counter is 1.
C21_Witness ==
    /\ pc = "loop"
    /\ Len(log) > 1
    /\ log[Len(log)].kind \in MarkKinds
    /\ dupes_written = 1
    /\ \E i, j \in 1..Len(inputs) :
          /\ i # j
          /\ << i, log[Len(log)].before[i] >> \in log[Len(log)].skipped
          /\ << j, log[Len(log)].before[j] >> \in log[Len(log)].skipped
          /\ inputs[i].dupe_count = 1
          /\ inputs[j].dupe_count = 1

\* Iteration p skipped the current field of input i.
SkippedIn(p, i) == << i, log[p].before[i] >> \in log[p].skipped

\* The field emitted by iteration p repeats the field emitted before it:
\* the same samples and, until the flags are reassigned after the loop, the
\* same metadata.
RepeatsPrevious(p) ==
    /\ PushedBefore(p) >= 1
    /\ out_samples[log[p].written] = out_samples[log[p].written - 1]
    /\ out_fields[log[p].pushed].seq_no = out_fields[log[p].pushed - 1].seq_no
    /\ out_fields[log[p].pushed].source = out_fields[log[p].pushed - 1].source
    /\ pc \in {"loop", "exit"} =>
          out_fields[log[p].pushed] = out_fields[log[p].pushed - 1]

\* Iteration p emitted one field, read nothing and moved only the inputs
\* that skipped a duplicate, each by one field.
WritesDupe(p) ==
    /\ Emitted(p)
    /\ log[p].fused = << >>
    /\ \A i \in 1..Len(log[p].before) :
          log[p].after[i] = log[p].before[i] + (IF SkippedIn(p, i) THEN 1 ELSE 0)

\* Iteration p read one field of every input, the one at its cursor after
\* the skipping, fused these fields, and moved every cursor by one past them.
FusesOneEach(p) ==
    /\ Len(log[p].fused) = Len(fields)
    /\ \A i \in 1..Len(fields) :
          /\ log[p].fused[i] = log[p].before[i] + (IF SkippedIn(p, i) THEN 1 ELSE 0)
          /\ log[p].after[i] = log[p].fused[i] + 1
    /\ Emitted(p) => out_samples[log[p].written] = log[p].fused

\* C22 as stated: without the conversion a marked iteration emits one field
\* that repeats the previously emitted one, reads nothing and moves only
\* the skipping inputs; a fused iteration reads one field of every input
\* and moves every cursor by one.
C22_Original ==
    ~args.dupes_to_drops =>
        \A p \in 1..Len(log) :
            /\ log[p].kind = "dupe_write" => (WritesDupe(p) /\ RepeatsPrevious(p))
            /\ log[p].kind = "fused" => FusesOneEach(p)

\* C22 (amended): the emitted field repeats the previously emitted one when
\* a field was emitted before; the first emitted field, when marked, is the
\* clone of input 0's start field with no fused samples.
C22_DupeRepeatsPrevious ==
    ~args.dupes_to_drops =>
        \A p \in 1..Len(log) :
            /\ log[p].kind = "dupe_write" =>
                  /\ WritesDupe(p)
                  /\ PushedBefore(p) >= 1 => RepeatsPrevious(p)
                  /\ PushedBefore(p) = 0 =>
                        /\ out_samples[1] = << >>
                        /\ out_fields[1].source = args.start_field[1] - 1
            /\ log[p].kind = "fused" => FusesOneEach(p)

\* A duplicate of input 2 alone is written after a fused field, and the
\* loop fuses another field after it.
C22_Witness ==
    /\ ~args.dupes_to_drops
    /\ pc = "loop"
    /\ \E p \in 2..(Len(log) - 1) :
          /\ log[p].kind = "dupe_write"
          /\ log[p - 1].kind = "fused"
          /\ log[p + 1].kind = "fused"
          /\ log[p].skipped = { << 2, log[p].before[2] >> }
          /\ RepeatsPrevious(p)
          /\ out_samples[log[p + 1].written] # out_samples[log[p].written]

\* The step is an iteration that fuses a field.
FusingStep == IterationStep /\ NewEntry.kind = "fused"

\* C26: whenever a field is fused, the field of every input it is fused
\* from has a sequence number above the input's last emitted one, so the
\* last emitted sequence number of every input rises with every fusion.
C26_NoStaleFusion ==
    [][ FusingStep =>
          \A i \in 1..Len(inputs) :
              /\ fields[i][NewEntry.fused[i] + 1] > inputs[i].last_seq_no
              /\ inputs'[i].last_seq_no > inputs[i].last_seq_no
      ]_vars

\* The same for inputs that never hold the same sequence number in more
\* than two fields in a row.
NoTriple ==
    \A i \in 1..Len(fields) :
        \A k \in 1..(Len(fields[i]) - 2) : fields[i][k] # fields[i][k + 2]

C26_SingleDuplicates ==
    [][ (FusingStep /\ NoTriple /\ \A i \in 1..Len(fields) : Positive(fields[i])) =>
          \A i \in 1..Len(inputs) :
              /\ fields[i][NewEntry.fused[i] + 1] > inputs[i].last_seq_no
              /\ inputs'[i].last_seq_no > inputs[i].last_seq_no
      ]_vars

\* The step moves the cursor of some input forward and of none backward.
MovesOn ==
    /\ \E i \in 1..Len(inputs) : inputs'[i].field_index > inputs[i].field_index
    /\ \A i \in 1..Len(inputs) : inputs'[i].field_index >= inputs[i].field_index

\* Every iteration leaves the loop or moves a cursor forward.
StopsOrMovesOn == [][ IterationStep => (pc' # "loop" \/ MovesOn) ]_vars

\* No cursor is beyond the field count of its input.
CursorsWithin == \A i \in 1..Len(inputs) : inputs[i].field_index <= Len(fields[i])

\* main is over: the metadata are written, or a panic ended the run.
Over == pc \in {"done", "abort"}

\* C25 as stated: every iteration stops the loop or advances a cursor, no
\* cursor exceeds the field count of its input, no run ends inside the loop
\* other than by the stop condition (a panic ends it before the loop only),
\* and every run ends, with or without a field cap and with or without the
\* conversion of duplicates.
C25_Original ==
    /\ StopsOrMovesOn
    /\ [](Started => CursorsWithin)
    /\ [](pc = "abort" => log = << >>)
    /\ <>Over

\* C25 (amended): the same for start fields within the inputs; with a start
\* field beyond the last field of an input the run ends too, by a panic.
C25_Terminates ==
    /\ StopsOrMovesOn
    /\ [](StartsWithin => ((Started => CursorsWithin) /\ (pc = "abort" => log = << >>)))
    /\ <>Over

\* A finished run without a cap that dropped a duplicate, and a finished
\* run that the cap stopped after a written duplicate.
C25_Witness ==
    /\ pc = "done"
    /\ Len(log) >= 3
    /\ \/ /\ args.max_fields = 0
          /\ args.dupes_to_drops
          /\ \E p \in 1..Len(log) : log[p].kind = "dupe_drop"
          /\ log[Len(log)].kind \in {"stop_ended", "stop_after_skip"}
       \/ /\ args.max_fields = FieldCap
          /\ ~args.dupes_to_drops
          /\ \E p \in 1..Len(log) : log[p].kind = "dupe_write"
          /\ log[Len(log)].kind = "stop_max_fields"

-----------------------------------------------------------------------------
(* SpecFieldmap: the runs of SpecSync with --fieldmap-csv.                 *)

SpecFieldmap == InitSyncOf(MaxFields, {TRUE}) /\ [][NextSync]_vars

\* The lines of the field map.
MapLines == out_fieldmap.lines

\* The 1-based fields of the inputs that iteration p fused.
Sources(p) == Vec([i \in 1..Len(log[p].fused) |-> log[p].fused[i] + 1])

\* The lines keyed by output position n.
LinesOf(n) == { k \in 1..Len(MapLines) : MapLines[k][1] = n }

\* The run is over and had a field map.
MapClosed == pc = "done" /\ out_fieldmap.some

\* C27: after a run with a field map the map holds exactly one entry per
\* emitted output field, keyed by the field's 1-based output position and
\* listing the 1-based source field of every input: every position has one
\* line (a written duplicate too) and no two lines share a key, no line has
\* another key, the line of a fused field lists the fields fused, and no
\* line lists the fields of a fused field that was dropped.
C27_OneEntryPerField ==
    MapClosed =>
        /\ \A n \in 1..Len(out_fields) : Cardinality(LinesOf(n)) = 1
        /\ \A k \in 1..Len(MapLines) : MapLines[k][1] \in 1..Len(out_fields)
        /\ \A p \in 1..Len(log) :
              (log[p].kind = "fused" /\ Emitted(p)) =>
                  \E k \in 1..Len(MapLines) :
                      MapLines[k] = << log[p].pushed, Sources(p) >>
        /\ \A p \in 1..Len(log) :
              (log[p].kind = "fused" /\ Silent(p)) =>
                  ~ \E k \in 1..Len(MapLines) : MapLines[k][2] = Sources(p)

\* The iterations that fused a field, oldest first.
RECURSIVE FusedUpTo(_)
FusedUpTo(p) ==
    IF p = 0 THEN << >>
    ELSE IF log[p].kind = "fused" THEN Append(FusedUpTo(p - 1), p)
    ELSE FusedUpTo(p - 1)

\* What the code keeps: the map holds one line per fusion, emitted or
\* dropped, in the order of the fusions, keyed by the number of output
\* fields pushed before the fusion plus one; a written duplicate adds no
\* line.
C27_LinePerFusion ==
    (pc \in {"loop", "exit", "done"} /\ out_fieldmap.some) =>
        LET fusions == FusedUpTo(Len(log))
        IN  /\ Len(MapLines) = Len(fusions)
            /\ \A k \in 1..Len(fusions) :
                  MapLines[k] = << PushedBefore(fusions[k]) + 1, Sources(fusions[k]) >>

\* A closed map of a run that wrote a duplicate, and one of a run that
\* dropped a fused field.
C27_Witness ==
    /\ MapClosed
    /\ \/ \E p \in 1..Len(log) : log[p].kind = "dupe_write"
       \/ \E p \in 1..Len(log) : log[p].kind = "fused" /\ Silent(p)

-----------------------------------------------------------------------------
(* SpecStartup: main from its start to the loop, for 0 to MaxInputs inputs *)
(* of three fields and as many start fields, one fewer or one more.        *)

\* The start fields: 1 for every input but the first two, which start at
\* their first, second or third field.
StartFieldLists(n) ==
    { Vec([i \in 1..n |-> IF i = 1 THEN s1 ELSE IF i = 2 THEN s2 ELSE 1]) :
        s1 \in 1..3, s2 \in 1..3 }

InitStartup ==
    /\ pc = "startup"
    /\ \E n \in 0..MaxInputs :
          /\ fields = Vec([i \in 1..n |-> << 1, 2, 3 >>])
          /\ \E k \in {n - 1, n, n + 1} \cap (0..(MaxInputs + 1)) :
             \E sf \in StartFieldLists(k) :
                args = [start_field |-> sf, max_fields |-> 0, dupes_to_drops |-> FALSE,
                        fieldmap_csv |-> FALSE]
    /\ inputs = << >>
    /\ out_fields = << >>
    /\ out_samples = << >>
    /\ new_field = [seq_no |-> 0, source |-> 0, is_first_field |-> FALSE]
    /\ new_samples = << >>
    /\ dupes_written = 0
    /\ drop_next = FALSE
    /\ log = << >>
    /\ opened = 0
    /\ created = {}
    /\ out_fieldmap = NoFieldmap
    /\ out_meta = [written |-> FALSE, fields |-> << >>,
                   number_of_sequential_fields |-> 0]
    /\ KernelIdle
    /\ MergeIdle
    /\ MetricsIdle
    /\ FilesIdle

SpecStartup == InitStartup /\ [][Startup]_vars

\* C15: a run over 3 to 15 inputs is accepted, and a run over any other
\* number of inputs aborts before an input is opened or an output file
\* created.
C15_CountsAccepted ==
    pc # "startup" =>
        /\ ( /\ Len(fields) \in 3..15
             /\ Len(args.start_field) = Len(fields)
             /\ args.start_field[1] % 2 = 1 )
           => pc = "loop"
        /\ Len(fields) \notin 3..15 =>
              (pc = "abort" /\ opened = 0 /\ created = {})

\* The start fields differ in number from the inputs.
CountMismatch == Len(args.start_field) # Len(fields)

\* The 0-based start field of input 0 (the first) is odd.
FirstMisaligned ==
    Len(args.start_field) >= 1 /\ (args.start_field[1] - 1) % 2 = 1

\* C16: the run aborts, with no output file and no field, when the start
\* fields differ in number from the inputs or input 0 starts on an odd
\* 0-based field; another input may start on an odd 0-based field, and its
\* dupe_count then starts at 1.
C16_StartFieldChecks ==
    pc # "startup" =>
        /\ (CountMismatch \/ FirstMisaligned) =>
              /\ pc = "abort"
              /\ created = {}
              /\ out_fields = << >>
              /\ out_samples = << >>
        /\ (count_accepted(Len(fields)) /\ ~CountMismatch /\ ~FirstMisaligned) =>
              /\ pc = "loop"
              /\ \A i \in 1..Len(inputs) :
                    /\ inputs[i].field_index = args.start_field[i] - 1
                    /\ inputs[i].dupe_count = (IF inputs[i].field_index % 2 = 1 THEN 1 ELSE 0)

\* Input 1 (the second) starts at its second field and the run reaches the
\* loop with its dupe_count at 1.
C16_Witness ==
    /\ pc = "loop"
    /\ args.start_field[2] = 2
    /\ inputs[2].dupe_count = 1
    /\ inputs[1].dupe_count = 0
    /\ created = OutputFiles

-----------------------------------------------------------------------------
(* SpecPrecond: one call of median::batch_n on slices of any shape: 0 to   *)
(* MaxInputs + 1 inputs, an output of a length in OutLens, at most one     *)
(* input of another length, and a slot array of one slot fewer or more.    *)

\* The lengths of the output slice.
OutLens == {0, 16, 31, 32, 33, 64}

\* By how much the one input of another length differs.
LenDeltas == {-32, -1, 1, 32}

\* What the output slice holds before the call; no input holds it.
Untouched(len) == Vec([p \in 1..len |-> 7])

\* Input j of len samples.
Plane(j, len) == Vec([p \in 1..len |-> 100 * j + p])

InitPrecond ==
    /\ pc = "call"
    /\ cpu \in CpuLevels
    /\ \E n \in 0..(MaxInputs + 1), len \in OutLens :
          /\ new_luma = Untouched(len)
          /\ \E odd \in {0, 1, n} \cap (0..n), d \in LenDeltas :
                in_luma = Vec([j \in 1..n |->
                    Plane(j, IF j = odd /\ len + d >= 0 THEN len + d ELSE len)])
          /\ \E slots \in {n - 1, n, n + 1} \cap (0..(MaxInputs + 2)) :
                sse_luma = Vec([j \in 1..slots |-> U64(9)])
    /\ va = << >>
    /\ m = << >>
    /\ in_chroma = << >>
    /\ new_chroma = << >>
    /\ sse_luma_edge = << >>
    /\ sse_chroma = << >>
    /\ MergeIdle
    /\ SyncIdle
    /\ MetricsIdle
    /\ FilesIdle

\* batch_n(&mut new_luma, &in_luma, &mut sse_luma)
KernelCall ==
    /\ pc = "call"
    /\ \E r \in {batch_n(cpu, new_luma, in_luma, sse_luma)} :
          /\ new_luma' = r.out
          /\ sse_luma' = r.sse
          /\ pc' = IF r.panic THEN "panic" ELSE "returned"
    /\ UNCHANGED << cpu, va, m, in_luma, in_chroma, new_chroma,
                    sse_luma_edge, sse_chroma >>
    /\ UNCHANGED << merge_vars, sync_vars, metric_vars, file_vars >>

SpecPrecond == InitPrecond /\ [][KernelCall]_vars

\* The shape of the call breaks one of the four preconditions.  (A call
\* changes no length, so the shape can be read after it.)
WrongCount == Len(in_luma) \notin 3..15
WrongInputLen == \E j \in 1..Len(in_luma) : Len(in_luma[j]) # Len(new_luma)
WrongMultiple == Len(new_luma) % 32 # 0
WrongSlots == Len(sse_luma) # Len(in_luma)
BadShape == WrongCount \/ WrongInputLen \/ WrongMultiple \/ WrongSlots

\* C17: a kernel call whose number of inputs is outside 3..15, or with an
\* input of another length than the output, or with a length that is not a
\* multiple of 32, or without exactly N squared-error slots, panics and
\* leaves the output slice as it was: no sample written, none dropped, none
\* added.  (A call of a good shape on a processor with a backend returns with
\* every sample written.)
C17_KernelPreconditions ==
    pc # "call" =>
        /\ BadShape => (pc = "panic" /\ new_luma = Untouched(Len(new_luma)))
        /\ pc = "panic" => new_luma = Untouched(Len(new_luma))
        /\ (~BadShape /\ cpu # {}) =>
              /\ pc = "returned"
              /\ \A p \in 1..Len(new_luma) : new_luma[p] # 7

\* Three inputs, three slots, 32 output samples, the last input one sample
\* short: the call panics on the widest backend.
C17_Witness ==
    /\ pc = "panic"
    /\ "avx512bw" \in cpu
    /\ Len(in_luma) = 3
    /\ Len(sse_luma) = 3
    /\ Len(new_luma) = 32
    /\ Len(in_luma[3]) = 31

-----------------------------------------------------------------------------
(* SpecMetrics: the bad-input tracking at the end of the loop body, over   *)
(* three inputs.  The RMSE pSNR of a fused field is drawn from PsnrVectors *)
(* (error_to_psnr is a float logarithm); a duplicate that is written is    *)
(* scored with the sse_luma of the field fused before it.                  *)

\* An f32 pSNR: a whole number of dB, or +inf (zero squared error).
Finite(d) == [inf |-> FALSE, db |-> d]
Infinite == [inf |-> TRUE, db |-> 0]

PsnrVectors ==
    { << Finite(40), Finite(40), Finite(40) >>,
      << Finite(31), Finite(35), Finite(36) >>,
      << Finite(20), Finite(40), Finite(40) >>,
      << Finite(20), Finite(45), Finite(20) >> }

RECURSIVE SumDb(_, _)
SumDb(v, k) == IF k = 0 THEN 0 ELSE (IF v[k].inf THEN 0 ELSE v[k].db) + SumDb(v, k - 1)

\* v < 32. && v < avg_of_others - 5., with avg_of_others = (sum - v) / (n - 1):
\* a sum with a +inf term is +inf, and a +inf v is never below 32.
suspect(psnr, i) ==
    LET n == Len(psnr)
        sum_inf == \E j \in 1..n : psnr[j].inf
        sum == SumDb(psnr, n)
    IN  /\ ~psnr[i].inf
        /\ psnr[i].db < 32
        /\ \/ sum_inf
           \/ psnr[i].db * (n - 1) < (sum - psnr[i].db) - 5 * (n - 1)

\* The counter update that never resets.
track_sticky(bad, psnr) ==
    LET next == Vec([i \in 1..Len(psnr) |->
                    IF suspect(psnr, i) THEN bad[i] + 1 ELSE bad[i]])
    IN  [bad |-> next,
         warned |-> { i \in 1..Len(psnr) :
                        suspect(psnr, i) /\ next[i] % RMSE_WARN_THRESHOLD = 0 }]

\* The loop over rmse_psnr: the new counters and the inputs warned about.
track(bad, psnr) ==
    LET next == Vec([i \in 1..Len(psnr) |->
                    IF suspect(psnr, i) THEN bad[i] + 1 ELSE 0])
    IN  [bad |-> next,
         warned |-> { i \in 1..Len(psnr) :
                        suspect(psnr, i) /\ next[i] % RMSE_WARN_THRESHOLD = 0 }]

\* What an iteration was: its kind and the pSNR sse_luma stood for.
Shape(e) == << e.kind, e.psnr >>

\* The history h with one more iteration: consecutive iterations of one
\* shape are kept as one entry with their number and the warnings of the
\* latest of them.
Record(h, kind, psnr, warned) ==
    IF h # << >> /\ Shape(h[Len(h)]) = << kind, psnr >>
    THEN [h EXCEPT ![Len(h)].count = @ + 1, ![Len(h)].warned = warned]
    ELSE Append(h, [kind |-> kind, psnr |-> psnr, count |-> 1, warned |-> warned])

RECURSIVE Iterations(_, _, _)
\* The iterations of entries from..to of h.
Iterations(h, from, to) ==
    IF from > to THEN 0 ELSE h[to].count + Iterations(h, from, to - 1)

\* The iterations unlike the first lie within MaxBreak consecutive ones.
OneBreak(h) ==
    LET unlike == { x \in 1..Len(h) : Shape(h[x]) # Shape(h[1]) }
    IN  \A j, k \in unlike : j <= k => Iterations(h, j, k) <= MaxBreak

\* The state after an iteration of the given kind that left sse_luma at psnr.
Scored(kind, psnr, r) ==
    /\ Iterations(history, 1, Len(history)) < MaxIterations
    /\ history' = Record(history, kind, psnr, r.warned)
    /\ OneBreak(history')
    /\ rmse_psnr' = psnr
    /\ rmse_bad_in_a_row' = r.bad

InitMetrics ==
    /\ pc = "loop"
    /\ rmse_psnr = << Infinite, Infinite, Infinite >>
    /\ rmse_bad_in_a_row = << 0, 0, 0 >>
    /\ history = << >>
    /\ args \in [start_field : {<< 1, 1, 1 >>}, max_fields : {0},
                 dupes_to_drops : BOOLEAN]
    /\ drop_next = FALSE
    /\ fields = << >>
    /\ inputs = << >>
    /\ out_fields = << >>
    /\ out_samples = << >>
    /\ new_field = [seq_no |-> 0, source |-> 0, is_first_field |-> FALSE]
    /\ new_samples = << >>
    /\ dupes_written = 0
    /\ log = << >>
    /\ opened = 0
    /\ created = {}
    /\ out_fieldmap = NoFieldmap
    /\ out_meta = [written |-> FALSE, fields |-> << >>,
                   number_of_sequential_fields |-> 0]
    /\ KernelIdle
    /\ MergeIdle
    /\ FilesIdle

metric_frame ==
    << pc, args, fields, inputs, out_fields, out_samples, new_field, new_samples,
       dupes_written, log, opened, created, out_meta, out_fieldmap, kernel_vars,
       merge_vars,
       file_vars >>

\* An iteration that fuses a field and emits it.
ScoreFused ==
    /\ ~drop_next
    /\ \E psnr \in PsnrVectors :
          Scored("fused", psnr, track(rmse_bad_in_a_row, psnr))
    /\ UNCHANGED << drop_next, metric_frame >>

\* An iteration that writes a duplicate out: sse_luma is as it was.
ScoreDupe ==
    /\ ~args.dupes_to_drops
    /\ Scored("dupe", rmse_psnr, track(rmse_bad_in_a_row, rmse_psnr))
    /\ UNCHANGED << drop_next, metric_frame >>

\* An iteration that drops a duplicate: continue, before anything is fused.
SkipDupe ==
    /\ args.dupes_to_drops
    /\ Scored("dupe_drop", rmse_psnr, [bad |-> rmse_bad_in_a_row, warned |-> {}])
    /\ drop_next' = TRUE
    /\ UNCHANGED metric_frame

\* An iteration that fuses the field after a dropped duplicate: continue,
\* before the tracking.
SkipNext ==
    /\ drop_next
    /\ \E psnr \in PsnrVectors :
          Scored("next_drop", psnr, [bad |-> rmse_bad_in_a_row, warned |-> {}])
    /\ drop_next' = FALSE
    /\ UNCHANGED metric_frame

NextMetrics ==
    \/ ScoreFused
    \/ ScoreDupe
    \/ SkipDupe
    \/ SkipNext

SpecMetrics == InitMetrics /\ [][NextMetrics]_vars

\* The iterations of entry k emitted an output field each.
EmittedAt(k) == history[k].kind \in {"fused", "dupe"}

\* The length of the latest unbroken run of emitted fields in which input i
\* was suspect: the emitted fields since the latest emitted field in which
\* it was not.
RunOf(i) ==
    LET breaks == { j \in 1..Len(history) :
                      EmittedAt(j) /\ ~suspect(history[j].psnr, i) }
        last == IF breaks = {} THEN 0
                ELSE CHOOSE j \in breaks : \A x \in breaks : x <= j
        since == SelectSeq(SubSeq(history, last + 1, Len(history)),
                           LAMBDA e : e.kind \in {"fused", "dupe"})
    IN  Iterations(since, 1, Len(since))

\* C19: after every iteration the counter of every input is the length of
\* its current unbroken run of emitted suspect fields (0 when the latest
\* emitted field was not suspect), where dropped fields neither add to a run
\* nor break it; an emitted field warns about exactly the inputs whose
\* counter is then a positive multiple of 30, and a dropped field about
\* nobody.
C19_CounterIsRunLength ==
    history # << >> =>
        /\ \A i \in 1..3 : rmse_bad_in_a_row[i] = RunOf(i)
        /\ history[Len(history)].warned =
              IF EmittedAt(Len(history))
              THEN { i \in 1..3 : RunOf(i) > 0 /\ RunOf(i) % 30 = 0 }
              ELSE {}

\* Input 1 is warned about at its 30th suspect field in a row, with a
\* dropped duplicate and the dropped field after it inside the run.
C19_Witness ==
    /\ Len(history) = 4
    /\ history[1].kind = "fused"
    /\ history[2].kind = "dupe_drop"
    /\ history[3].kind = "next_drop"
    /\ history[4].kind = "fused"
    /\ history[1].count + history[4].count = 30
    /\ history[4].warned = {1}
    /\ rmse_bad_in_a_row[1] = 30

\* Input 1 is warned about again at its 60th suspect field in a row.
C19_SecondWarning ==
    /\ rmse_bad_in_a_row[1] = 60
    /\ history[Len(history)].warned = {1}

-----------------------------------------------------------------------------
(* SpecRun: main over 3 to 15 inputs of bit-identical samples, without     *)
(* dropouts and without a field cap: the start, the loop with its reads,   *)
(* kernel calls, dropout merge and writes, and the output metadata.        *)

\* Field f (from 0) of the .tbc and the _chroma.tbc of every input.
TbcLuma(f) == Vec([p \in 1..field_size |-> (f * 7919 + p * 104729) % 65536])
TbcChroma(f) == Vec([p \in 1..field_size |-> ((f + 1) * 31 + p * 7) % 65536])

\* The seq_no lists of an input, and a list of later numbers.
RunLists == { l \in { << >>, << 1 >>, << 1, 2 >>, << 2, 5 >> } : Len(l) <= MaxRunFields }
Later(l) == Vec([k \in 1..Len(l) |-> l[k] + 3])

InitRun ==
    /\ pc = "startup"
    /\ cpu \in CpuLevels
    /\ \E n \in KernelCounts : \E base \in RunLists : \E other \in {base, Later(base)} :
          /\ fields = Vec([i \in 1..n |-> IF i = 2 THEN other ELSE base])
          /\ \E d \in BOOLEAN :
                args = [start_field |-> Vec([i \in 1..n |-> 1]), max_fields |-> 0,
                        dupes_to_drops |-> d, fieldmap_csv |-> FALSE]
    /\ inputs = << >>
    /\ out_fields = << >>
    /\ out_samples = << >>
    /\ new_field = [seq_no |-> 0, source |-> 0, is_first_field |-> FALSE]
    /\ new_samples = << >>
    /\ dupes_written = 0
    /\ drop_next = FALSE
    /\ log = << >>
    /\ opened = 0
    /\ created = {}
    /\ out_fieldmap = NoFieldmap
    /\ out_meta = [written |-> FALSE, fields |-> << >>,
                   number_of_sequential_fields |-> 0]
    /\ va = << >>
    /\ m = << >>
    /\ in_luma = << >>
    /\ in_chroma = << >>
    /\ new_luma = << >>
    /\ new_chroma = << >>
    /\ sse_luma = << >>
    /\ sse_luma_edge = << >>
    /\ sse_chroma = << >>
    /\ MergeIdle
    /\ MetricsIdle
    /\ FilesIdle

\* The variables of the synchronisation take their values from r.
Assigns(r) ==
    /\ inputs' = r.inputs
    /\ out_fields' = r.out_fields
    /\ out_samples' = r.out_samples
    /\ new_field' = r.new_field
    /\ new_samples' = r.new_samples
    /\ dupes_written' = r.dupes_written
    /\ drop_next' = r.drop_next
    /\ log' = r.log
    /\ opened' = r.opened
    /\ created' = r.created
    /\ out_fieldmap' = r.out_fieldmap

\* main from its start to the loop, with the quorum and the buffers.
RunStartup ==
    /\ pc = "startup"
    /\ \E r \in { startup(args, fields) } :
          /\ Assigns(r)
          /\ pc' = r.pc
          /\ IF r.pc = "loop"
             THEN /\ dropout_threshold' = threshold_of(args_dropout_threshold, Len(fields))
                  /\ new_luma' = Zeros(field_size_rounded)
                  /\ new_chroma' = Zeros(field_size_rounded)
                  /\ in_luma' = Vec([j \in 1..Len(fields) |-> Zeros(field_size_rounded)])
                  /\ in_chroma' = Vec([j \in 1..Len(fields) |-> Zeros(field_size_rounded)])
                  /\ sse_luma' = Vec([j \in 1..Len(fields) |-> U64(0)])
                  /\ sse_luma_edge' = Vec([j \in 1..Len(fields) |-> U64(0)])
                  /\ sse_chroma' = Vec([j \in 1..Len(fields) |-> U64(0)])
             ELSE UNCHANGED << dropout_threshold, new_luma, new_chroma, in_luma,
                                in_chroma, sse_luma, sse_luma_edge, sse_chroma >>
    /\ UNCHANGED << args, fields, out_meta, cpu, va, m, args_dropout_threshold,
                    dropouts, flat_dropouts, drop_outs, depth_underflow,
                    first_merge, metric_vars, file_vars >>

\* batch_n on [from, to) of the plane out and of every plane of a.
plane_call(c, out, a, from, to, sse_) ==
    batch_n(c, Slice(out, from, to),
            Vec([j \in 1..Len(a) |-> Slice(a[j], from, to)]), sse_)

\* A kernel call that is not reached.
not_called(out, sse_) == [panic |-> TRUE, out |-> out, sse |-> sse_]

\* An iteration that fuses a field: the reads, the four kernel calls, the
\* dropout merge, and, unless the field is dropped, the writes and the push.
RunFuse ==
    /\ pc = "loop"
    /\ \E r \in { x \in { loop_body(args, fields, SyncState) } :
                     x.pc = "loop" /\ LastKind(x) = "fused" } :
       \E at \in { r.log[Len(r.log)].fused } :
       \E l_in \in { Vec([j \in 1..Len(in_luma) |->
                        Patch(in_luma[j], 0, TbcLuma(at[j]))]) } :
       \E c_in \in { Vec([j \in 1..Len(in_chroma) |->
                        Patch(in_chroma[j], 0, TbcChroma(at[j]))]) } :
       \E k1 \in { plane_call(cpu, new_luma, l_in, 0, useful_start_sample,
                              sse_luma_edge) } :
       \E luma1 \in { Patch(new_luma, 0, k1.out) } :
       \E k2 \in { IF k1.panic THEN not_called(<< >>, sse_luma)
                   ELSE plane_call(cpu, luma1, l_in, useful_start_sample,
                                   useful_end_sample, sse_luma) } :
       \E luma2 \in { Patch(luma1, useful_start_sample, k2.out) } :
       \E k3 \in { IF k2.panic THEN not_called(<< >>, k1.sse)
                   ELSE plane_call(cpu, luma2, l_in, useful_end_sample,
                                   field_size_rounded, k1.sse) } :
       \E luma3 \in { Patch(luma2, useful_end_sample, k3.out) } :
       \E k4 \in { IF k3.panic THEN not_called(new_chroma, sse_chroma)
                   ELSE plane_call(cpu, new_chroma, c_in, 0, field_size_rounded,
                                   sse_chroma) } :
       \E spans \in { Vec([j \in 1..Len(fields) |-> << >>]) } :
       \E sorted \in sort_unstable_by(flat_map(spans, 1)) :
       \E merged \in { consensus(sorted, dropout_threshold) } :
          /\ in_luma' = l_in
          /\ in_chroma' = c_in
          /\ new_luma' = luma3
          /\ new_chroma' = k4.out
          /\ sse_luma_edge' = k3.sse
          /\ sse_luma' = k2.sse
          /\ sse_chroma' = k4.sse
          /\ IF k4.panic
             THEN /\ pc' = "panic"
                  /\ UNCHANGED << sync_vars, merge_vars, file_vars >>
             ELSE /\ pc' = r.pc
                  /\ Assigns(r)
                  /\ dropouts' = spans
                  /\ flat_dropouts' = sorted
                  /\ drop_outs' = IF sorted = << >>
                                  THEN [some |-> FALSE, spans |-> << >>]
                                  ELSE [some |-> TRUE, spans |-> merged.spans]
                  /\ depth_underflow' = merged.underflow
                  /\ IF Len(r.out_fields) > Len(out_fields)
                     THEN /\ out_luma' = Append(out_luma, Slice(luma3, 0, field_size))
                          /\ out_chroma' = Append(out_chroma, Slice(k4.out, 0, field_size))
                     ELSE UNCHANGED file_vars
                  /\ UNCHANGED << args, fields, out_meta, args_dropout_threshold,
                                  dropout_threshold, first_merge >>
    /\ UNCHANGED << cpu, va, m, metric_vars >>

NextRun ==
    \/ RunStartup
    \/ RunFuse
    \/ Break
    \/ WriteMetadata

SpecRun == InitRun /\ [][NextRun]_vars

\* The run is over: the metadata is written, or main has panicked.
RunOver == pc \in {"done", "abort", "panic"}

\* No squared error and no consensus dropout so far.
NoErrorNoDropout ==
    /\ \A j \in 1..Len(sse_luma) :
          sse_luma[j] = U64(0) /\ sse_luma_edge[j] = U64(0) /\ sse_chroma[j] = U64(0)
    /\ ~drop_outs.some

\* Output field k holds the samples of field k of the inputs.
SameSamples ==
    /\ \A k \in 1..Len(out_luma) : out_luma[k] = TbcLuma(k - 1)
    /\ \A k \in 1..Len(out_chroma) : out_chroma[k] = TbcChroma(k - 1)

\* As many fields were pushed and written as the inputs have.
AllEmitted ==
    /\ Len(out_fields) = Len(fields[1])
    /\ Len(out_luma) = Len(fields[1])
    /\ Len(out_chroma) = Len(fields[1])

\* C18: N inputs of L fields with bit-identical samples, strictly
\* increasing positive sequence numbers and no dropouts, started at their
\* first field without a field cap, give exactly L output fields, each
\* without consensus dropout, with squared error 0 for every input and with
\* the luma and chroma samples of the input field at its position.
C18_IdenticalInputs ==
    /\ NoErrorNoDropout
    /\ SameSamples
    /\ RunOver => AllEmitted

\* The same for 3 to 14 inputs on a processor with a SIMD backend.
C18_BelowFifteen ==
    (Len(fields) < 15 /\ cpu # {}) => C18_IdenticalInputs

\* A run over 14 inputs that has written its metadata with two fields.
C18_BelowFifteenWitness ==
    /\ pc = "done"
    /\ Len(fields) = 14
    /\ Len(out_luma) = 2
    /\ out_meta.number_of_sequential_fields = 2

=============================================================================
